---- MODULE Spec2Model ----
(***************************************************************************)
(* The in-memory graph store (NetworkXAdapter over one nx.DiGraph), the    *)
(* circular-trading detector and the mismatch classifier of the GST        *)
(* reconciliation backend.                                                 *)
(*                                                                         *)
(* The DiGraph is two insertion-ordered dictionaries: G_node (node id ->   *)
(* attribute dict) and the adjacency (edge (u, v) -> attribute dict). Both *)
(* keep the position of a key that is written again, so each is modelled   *)
(* as a sequence in first-insertion order. Vendors and invoices are nodes  *)
(* of the same graph, keyed by the same kind of string.                    *)
(***************************************************************************)
EXTENDS Integers, Sequences, FiniteSets, TLC

VARIABLES
    G_node,     \* self.G._node: sequence of [id, attrs], insertion order
    G_edges,    \* self.G._succ/_pred: sequence of [u, v, rel], insertion order
    hist,       \* history: per key, the arguments of the last upserts since clear()
    last,       \* history: the last operation executed
    ops,        \* history: number of store operations executed
    pending,    \* load_csv: the rows of the files not yet read
    inflight,   \* per thread of the client, the call it is in and its position
    neo4j       \* the graph of the Neo4j backend, given the same calls

vars == <<G_node, G_edges, hist, last, ops, pending, inflight, neo4j>>

(***************************************************************************)
(* Bounds and input sets                                                   *)
(***************************************************************************)
MaxOps == 3
MaxCycleOps == 3

Gstins == {"A", "B"}
InvoiceIds == {"I1", "I2"}
\* upsert_vendor and upsert_invoice take any string as key: one invoice id is
\* also offered to upsert_vendor as a GSTIN.
VendorKeyInputs == Gstins \cup {"I1"}
Names == {"n1", "n2"}
MissedInputs == {0, 2}
AmountInputs == {1000}
TaxInputs == {5000, 120000}
CycleTaxInputs == {5000}
CycleGstins == {"A", "B", "C"}
CycleInvoiceIds == {"I1", "I2", "I3"}
DenseGstinSeq == <<"A", "B", "C", "D", "E">>
DenseInvoiceIds ==
    <<"D01", "D02", "D03", "D04", "D05", "D06", "D07", "D08", "D09", "D10",
      "D11", "D12", "D13", "D14", "D15", "D16", "D17", "D18", "D19", "D20">>
\* the cycle-membership sets handed to the scoring engine: none, and sets
\* that hold a seller but not its buyer, a buyer but not its seller, and both
CircularSets == {{}, {"A"}, {"B", "C"}, {"A", "B", "C"}}
\* a batch of vendors.csv and invoices.csv for the reconciliation engine
ReconcileGstinSeq == <<"A", "B">>
ReconcileInvoiceIdSeq == <<"I1", "I2">>
ReconcileMissedInputs == {0, 2, 7}
RowNames == {"n1"}
\* a batch for the vendor scores: the vendors.csv rows offered, the trades
\* and the return flags of the invoices.csv rows
ScoreGstinSeq == <<"A", "B", "C">>
ScoreInvoiceIdSeq == <<"I1", "I2", "I3">>
ScoreVendorRows ==
    {[gstin |-> "A", name |-> "n1", missed_filings |-> 0],
     [gstin |-> "A", name |-> "n1", missed_filings |-> 12],
     [gstin |-> "B", name |-> "n1", missed_filings |-> 2],
     [gstin |-> "C", name |-> "n1", missed_filings |-> 2]}
ScoreTrades == {<<"B", "A">>, <<"C", "A">>, <<"A", "B">>, <<"A", "A">>}
ScoreFlags == {<<FALSE, TRUE>>, <<TRUE, TRUE>>, <<TRUE, FALSE>>}
MaxRaises == 1
\* the tax column around each threshold of the tiers
TierTaxInputs == {0, 1, 19999, 20000, 20001, 49999, 50000, 99999, 100000, 250000}
TierGstinSeq == <<"A">>
TierInvoiceIdSeq == <<"I1">>
\* the threads: the number of calls the two threads make
MaxCalls == 3
\* the two backends side by side: the number of calls
MaxBackendOps == 3
BackendInvoiceIds == {"I1"}
BackendMissedInputs == {2}
\* the read operations
ReadOps == {"detect_circular_trading", "get_graph_summary", "get_mismatched_invoices",
            "score_invoice", "score_vendor", "reconcile_all_invoices",
            "get_invoice_audit_trail"}
AllKeys == Gstins \cup InvoiceIds \cup CycleGstins \cup CycleInvoiceIds
             \cup {DenseGstinSeq[i] : i \in 1..Len(DenseGstinSeq)}
             \cup {DenseInvoiceIds[i] : i \in 1..Len(DenseInvoiceIds)}
             \cup {"UNKNOWN"}
\* the keys the reads are probed with: every key of the store's clients and
\* one that is never written
ReadKeys == Gstins \cup InvoiceIds \cup {"UNKNOWN"}

(***************************************************************************)
(* Python values                                                           *)
(***************************************************************************)
None == [none |-> TRUE]
NetworkXError == [raises |-> "NetworkXError"]
EmptyDict == [k \in {} |-> 0]

\* dict.get(key, default)
Get(d, key, default) == IF key \in DOMAIN d THEN d[key] ELSE default

\* dict.update(new): keys of new overwrite, the others stay
Update(d, new) == new @@ d

\* the builtins min(a, b) and max(a, b)
min(a, b) == IF a <= b THEN a ELSE b
max(a, b) == IF a >= b THEN a ELSE b

RECURSIVE SeqToSet(_)
SeqToSet(s) == IF s = <<>> THEN {} ELSE {Head(s)} \cup SeqToSet(Tail(s))

(***************************************************************************)
(* nx.DiGraph primitives                                                   *)
(***************************************************************************)
NodeIds == {G_node[i].id : i \in 1..Len(G_node)}

HasNode(nodes, n) == \E i \in 1..Len(nodes) : nodes[i].id = n

\* self.G.nodes[n]
NodeAttrs(n) == G_node[CHOOSE i \in 1..Len(G_node) : G_node[i].id = n].attrs

NodeType(n) == Get(NodeAttrs(n), "type", "None")

\* DiGraph.add_node(n, **attr) on the node dictionary `nodes`
add_node(nodes, n, attr) ==
    IF HasNode(nodes, n)
    THEN [i \in 1..Len(nodes) |->
            IF nodes[i].id = n
            THEN [id |-> n, attrs |-> Update(nodes[i].attrs, attr)]
            ELSE nodes[i]]
    ELSE Append(nodes, [id |-> n, attrs |-> attr])

\* the node part of DiGraph.add_edge(u, v): missing end points are created bare
add_edge_nodes(nodes, u, v) ==
    LET withU == IF HasNode(nodes, u) THEN nodes
                 ELSE Append(nodes, [id |-> u, attrs |-> EmptyDict])
    IN  IF HasNode(withU, v) THEN withU
        ELSE Append(withU, [id |-> v, attrs |-> EmptyDict])

\* add_edge that stores a second edge where one exists, as a multigraph does
add_edge_parallel(es, u, v, rel) == Append(es, [u |-> u, v |-> v, rel |-> rel])

\* the adjacency part of DiGraph.add_edge(u, v, rel=rel)
add_edge(es, u, v, rel) ==
    IF \E i \in 1..Len(es) : es[i].u = u /\ es[i].v = v
    THEN [i \in 1..Len(es) |->
            IF es[i].u = u /\ es[i].v = v THEN [u |-> u, v |-> v, rel |-> rel]
            ELSE es[i]]
    ELSE Append(es, [u |-> u, v |-> v, rel |-> rel])

\* list(self.G.successors(n)) and list(self.G.predecessors(n)), n in the graph
RECURSIVE SuccOf(_, _)
SuccOf(es, n) ==
    IF es = <<>> THEN <<>>
    ELSE (IF Head(es).u = n THEN <<Head(es).v>> ELSE <<>>) \o SuccOf(Tail(es), n)

RECURSIVE PredOf(_, _)
PredOf(es, n) ==
    IF es = <<>> THEN <<>>
    ELSE (IF Head(es).v = n THEN <<Head(es).u>> ELSE <<>>) \o PredOf(Tail(es), n)

successors(n) == SuccOf(G_edges, n)
predecessors(n) == PredOf(G_edges, n)

IsInvoiceNode(n) == NodeType(n) = "invoice"

(***************************************************************************)
(* NetworkXAdapter: writes                                                 *)
(***************************************************************************)
VendorAttrs(name, missed_filings) ==
    [type |-> "vendor", name |-> name, missed_filings |-> missed_filings]

InvoiceAttrs(seller_gstin, buyer_gstin, amount, tax, reported_by_seller, claimed_by_buyer) ==
    [type |-> "invoice", seller_gstin |-> seller_gstin, buyer_gstin |-> buyer_gstin,
     amount |-> amount, tax |-> tax, reported_by_seller |-> reported_by_seller,
     claimed_by_buyer |-> claimed_by_buyer]

\* a clear that removes the edges only
clear_edges_only ==
    /\ G_node' = G_node
    /\ G_edges' = <<>>

\* NetworkXAdapter.clear: self.G.clear()
clear ==
    /\ G_node' = <<>>
    /\ G_edges' = <<>>

\* NetworkXAdapter.create_constraints: pass
create_constraints == UNCHANGED <<G_node, G_edges>>

\* NetworkXAdapter.upsert_vendor
upsert_vendor(gstin, name, missed_filings) ==
    /\ G_node' = add_node(G_node, gstin, VendorAttrs(name, missed_filings))
    /\ UNCHANGED G_edges

\* NetworkXAdapter.upsert_invoice: the node, then the SOLD edge, then the
\* PURCHASED_BY edge
upsert_invoice(invoice_id, seller_gstin, buyer_gstin, amount, tax, reported_by_seller, claimed_by_buyer) ==
    LET n1 == add_node(G_node, invoice_id,
                       InvoiceAttrs(seller_gstin, buyer_gstin, amount, tax,
                                    reported_by_seller, claimed_by_buyer))
        n2 == add_edge_nodes(n1, seller_gstin, invoice_id)
        e2 == add_edge(G_edges, seller_gstin, invoice_id, "SOLD")
        n3 == add_edge_nodes(n2, invoice_id, buyer_gstin)
        e3 == add_edge(e2, invoice_id, buyer_gstin, "PURCHASED_BY")
    IN  /\ G_node' = n3
        /\ G_edges' = e3

\* upsert_invoice, first statement: self.G.add_node(invoice_id, ...)
upsert_invoice_add_node(invoice_id, seller_gstin, buyer_gstin, amount, tax, reported_by_seller, claimed_by_buyer) ==
    /\ G_node' = add_node(G_node, invoice_id,
                          InvoiceAttrs(seller_gstin, buyer_gstin, amount, tax,
                                       reported_by_seller, claimed_by_buyer))
    /\ UNCHANGED G_edges

\* upsert_invoice, second statement: self.G.add_edge(seller_gstin, invoice_id, rel="SOLD")
upsert_invoice_add_sold_edge(invoice_id, seller_gstin) ==
    /\ G_node' = add_edge_nodes(G_node, seller_gstin, invoice_id)
    /\ G_edges' = add_edge(G_edges, seller_gstin, invoice_id, "SOLD")

\* upsert_invoice, third statement: self.G.add_edge(invoice_id, buyer_gstin, rel="PURCHASED_BY")
upsert_invoice_add_purchased_edge(invoice_id, buyer_gstin) ==
    /\ G_node' = add_edge_nodes(G_node, invoice_id, buyer_gstin)
    /\ G_edges' = add_edge(G_edges, invoice_id, buyer_gstin, "PURCHASED_BY")

(***************************************************************************)
(* NetworkXAdapter: reads                                                  *)
(***************************************************************************)
InvoiceDict(n, a) ==
    [invoice_id |-> n,
     seller_gstin |-> Get(a, "seller_gstin", ""),
     buyer_gstin |-> Get(a, "buyer_gstin", ""),
     amount |-> Get(a, "amount", 0),
     tax |-> Get(a, "tax", 0),
     reported_by_seller |-> Get(a, "reported_by_seller", FALSE),
     claimed_by_buyer |-> Get(a, "claimed_by_buyer", FALSE)]

\* the invoice-typed successors / predecessors of a node of the graph
SoldNodes(gstin) == SelectSeq(successors(gstin), IsInvoiceNode)
PurchasedNodes(gstin) == SelectSeq(predecessors(gstin), IsInvoiceNode)

\* the dict of a vendor, given its attributes and the lengths of sold and
\* purchased
VendorDictOf(n, a, total_outgoing, total_incoming) ==
    [gstin |-> n,
     name |-> Get(a, "name", ""),
     missed_filings |-> Get(a, "missed_filings", 0),
     total_outgoing |-> total_outgoing,
     total_incoming |-> total_incoming]

VendorDict(n, a) == VendorDictOf(n, a, Len(SoldNodes(n)), Len(PurchasedNodes(n)))

\* get_vendor without the test of the node's type
get_vendor_any_type(gstin) ==
    IF ~HasNode(G_node, gstin) THEN None
    ELSE VendorDict(gstin, NodeAttrs(gstin))

\* NetworkXAdapter.get_vendor
get_vendor(gstin) ==
    IF ~HasNode(G_node, gstin) \/ NodeType(gstin) # "vendor" THEN None
    ELSE VendorDict(gstin, NodeAttrs(gstin))

\* NetworkXAdapter.get_invoice
get_invoice(invoice_id) ==
    IF ~HasNode(G_node, invoice_id) \/ NodeType(invoice_id) # "invoice" THEN None
    ELSE InvoiceDict(invoice_id, NodeAttrs(invoice_id))

\* the ids of the nodes of one type, in node order
RECURSIVE NodesOfType(_, _)
NodesOfType(nodes, type) ==
    IF nodes = <<>> THEN <<>>
    ELSE (IF Get(Head(nodes).attrs, "type", "None") = type THEN <<Head(nodes).id>> ELSE <<>>)
         \o NodesOfType(Tail(nodes), type)

\* NetworkXAdapter.get_all_vendors
get_all_vendors ==
    LET ids == NodesOfType(G_node, "vendor")
    IN  [i \in 1..Len(ids) |-> VendorDict(ids[i], NodeAttrs(ids[i]))]

\* NetworkXAdapter.get_all_invoices
get_all_invoices ==
    LET ids == NodesOfType(G_node, "invoice")
    IN  [i \in 1..Len(ids) |-> InvoiceDict(ids[i], NodeAttrs(ids[i]))]

\* NetworkXAdapter.get_vendor_invoices: successors() and predecessors() raise
\* NetworkXError for a node that is not in the graph
get_vendor_invoices(gstin) ==
    IF ~HasNode(G_node, gstin) THEN NetworkXError
    ELSE LET s == SoldNodes(gstin)
             p == PurchasedNodes(gstin)
         IN  [sold |-> [i \in 1..Len(s) |-> get_invoice(s[i])],
              purchased |-> [i \in 1..Len(p) |-> get_invoice(p[i])]]

\* list.sort(key=tax, reverse=True): stable, equal keys keep their input order
RECURSIVE InsertByTaxDesc(_, _)
InsertByTaxDesc(sorted, x) ==
    IF sorted = <<>> THEN <<x>>
    ELSE IF Head(sorted).tax >= x.tax
         THEN <<Head(sorted)>> \o InsertByTaxDesc(Tail(sorted), x)
         ELSE <<x>> \o sorted

\* the sort without reverse=True
RECURSIVE InsertByTaxAsc(_, _)
InsertByTaxAsc(sorted, x) ==
    IF sorted = <<>> THEN <<x>>
    ELSE IF Head(sorted).tax <= x.tax
         THEN <<Head(sorted)>> \o InsertByTaxAsc(Tail(sorted), x)
         ELSE <<x>> \o sorted

RECURSIVE SortByTaxAsc(_)
SortByTaxAsc(s) ==
    IF s = <<>> THEN <<>>
    ELSE InsertByTaxAsc(SortByTaxAsc(SubSeq(s, 1, Len(s) - 1)), s[Len(s)])

RECURSIVE SortByTaxDesc(_)
SortByTaxDesc(s) ==
    IF s = <<>> THEN <<>>
    ELSE InsertByTaxDesc(SortByTaxDesc(SubSeq(s, 1, Len(s) - 1)), s[Len(s)])

\* a filter that takes an invoice with either flag set
IsMismatchedEitherFlag(inv) == inv.reported_by_seller \/ inv.claimed_by_buyer

\* a mismatch test that takes every invoice that is not matched
IsMismatchedNotMatched(inv) == ~(inv.reported_by_seller /\ inv.claimed_by_buyer)

\* the filter of get_mismatched_invoices
IsMismatched(inv) == inv.reported_by_seller # inv.claimed_by_buyer

\* NetworkXAdapter.get_mismatched_invoices
get_mismatched_invoices ==
    SortByTaxDesc(SelectSeq(get_all_invoices, IsMismatched))

\* the dict get_invoice_trail returns, given the invoice and what get_vendor
\* returned for its seller and its buyer
invoice_trail_of(invoice_id, inv, seller, buyer) ==
    [invoice_id |-> invoice_id,
     amount |-> inv.amount,
     tax |-> inv.tax,
     reported_by_seller |-> inv.reported_by_seller,
     claimed_by_buyer |-> inv.claimed_by_buyer,
     seller_gstin |-> inv.seller_gstin,
     seller_name |-> IF seller = None THEN "Unknown" ELSE seller.name,
     seller_missed_filings |-> IF seller = None THEN 0 ELSE seller.missed_filings,
     buyer_gstin |-> inv.buyer_gstin,
     buyer_name |-> IF buyer = None THEN "Unknown" ELSE buyer.name,
     buyer_missed_filings |-> IF buyer = None THEN 0 ELSE buyer.missed_filings,
     gstr1_filed |-> inv.reported_by_seller,
     gstr2b_filed |-> inv.claimed_by_buyer]

\* NetworkXAdapter.get_invoice_trail
get_invoice_trail(invoice_id) ==
    LET inv == get_invoice(invoice_id)
    IN  IF inv = None THEN EmptyDict
        ELSE invoice_trail_of(invoice_id, inv, get_vendor(inv.seller_gstin),
                              get_vendor(inv.buyer_gstin))

\* the test without its second half: every claimed invoice
IsSuspiciousClaimedOnly(inv) == inv.claimed_by_buyer

\* claimed_by_buyer and not reported_by_seller
IsSuspicious(inv) == inv.claimed_by_buyer /\ ~inv.reported_by_seller

\* NetworkXAdapter.get_graph_summary
get_graph_summary ==
    [vendor_count |-> Len(NodesOfType(G_node, "vendor")),
     invoice_count |-> Len(NodesOfType(G_node, "invoice")),
     mismatch_count |-> Len(SelectSeq(get_all_invoices, IsMismatched)),
     suspicious_count |-> Len(SelectSeq(get_all_invoices, IsSuspicious))]

\* one node of get_graph_data
GraphDataNode(n, a) ==
    LET type == Get(a, "type", "unknown")
    IN  IF type = "vendor"
        THEN [id |-> n, type |-> type, name |-> Get(a, "name", ""),
              missed_filings |-> Get(a, "missed_filings", 0)]
        ELSE IF type = "invoice"
        THEN [id |-> n, type |-> type,
              amount |-> Get(a, "amount", 0), tax |-> Get(a, "tax", 0),
              seller_gstin |-> Get(a, "seller_gstin", ""),
              buyer_gstin |-> Get(a, "buyer_gstin", ""),
              reported_by_seller |-> Get(a, "reported_by_seller", FALSE),
              claimed_by_buyer |-> Get(a, "claimed_by_buyer", FALSE),
              is_suspicious |-> Get(a, "claimed_by_buyer", FALSE)
                                 /\ ~Get(a, "reported_by_seller", FALSE)]
        ELSE [id |-> n, type |-> type]

\* self.G.edges(): for each node in node order, its successors in order
RECURSIVE EdgesOf(_)
EdgesOf(nodes) ==
    IF nodes = <<>> THEN <<>>
    ELSE LET succ == successors(Head(nodes).id)
         IN  [i \in 1..Len(succ) |-> [source |-> Head(nodes).id, target |-> succ[i]]]
             \o EdgesOf(Tail(nodes))

\* NetworkXAdapter.get_graph_data
get_graph_data ==
    [nodes |-> [i \in 1..Len(G_node) |-> GraphDataNode(G_node[i].id, G_node[i].attrs)],
     edges |-> EdgesOf(G_node)]

(***************************************************************************)
(* Circular-trading detection                                              *)
(***************************************************************************)
\* vendor_graph: one edge seller -> buyer per invoice node whose seller and
\* buyer are non-empty and differ
vendor_graph_edges_of(invs) ==
    {<<inv.seller_gstin, inv.buyer_gstin>> :
        inv \in {x \in SeqToSet(invs) :
                    /\ x.seller_gstin # ""
                    /\ x.buyer_gstin # ""
                    /\ x.seller_gstin # x.buyer_gstin}}

vendor_graph_edges == vendor_graph_edges_of(get_all_invoices)

\* the nodes of vendor_graph in the order add_edge creates them
RECURSIVE VendorGraphNodes(_, _)
VendorGraphNodes(invs, acc) ==
    IF invs = <<>> THEN acc
    ELSE LET inv == Head(invs)
             use == inv.seller_gstin # "" /\ inv.buyer_gstin # ""
                    /\ inv.seller_gstin # inv.buyer_gstin
             a1 == IF use /\ inv.seller_gstin \notin SeqToSet(acc)
                   THEN Append(acc, inv.seller_gstin) ELSE acc
             a2 == IF use /\ inv.buyer_gstin \notin SeqToSet(a1)
                   THEN Append(a1, inv.buyer_gstin) ELSE a1
         IN  VendorGraphNodes(Tail(invs), a2)

vendor_graph_nodes == VendorGraphNodes(get_all_invoices, <<>>)

\* the elementary circuits that continue `path` (which starts at its root)
\* through vertices of `allowed` and close on the root
RECURSIVE CircuitsFrom(_, _, _)
CircuitsFrom(E, path, allowed) ==
    LET tip == path[Len(path)]
    IN  (IF <<tip, path[1]>> \in E THEN {path} ELSE {})
        \cup UNION {CircuitsFrom(E, Append(path, v), allowed \ {v}) :
                        v \in {w \in allowed : <<tip, w>> \in E}}

\* a search that leaves the roots already searched in the graph
AllowedAnyOther(V, i) == {V[j] : j \in 1..Len(V)} \ {V[i]}

\* the vertices a search rooted at the i-th vertex may pass through: the roots
\* already searched are removed from the graph
AllowedAfterRoot(V, i) == {V[j] : j \in (i + 1)..Len(V)}

\* nx.simple_cycles(vendor_graph): every elementary circuit once. The order
\* of the list and the vertex each circuit starts at are not fixed by the
\* library, so the result is the set of circuits, each written from the
\* vertex of it that entered vendor_graph first.
simple_cycles(E, V) ==
    UNION {CircuitsFrom(E, <<V[i]>>, AllowedAfterRoot(V, i)) : i \in 1..Len(V)}

\* detect_circular_trading, given the invoice nodes its loop over
\* self.G.nodes(data=True) went through
detect_over(invs, max_depth) ==
    {cycle \in simple_cycles(vendor_graph_edges_of(invs), VendorGraphNodes(invs, <<>>)) :
        2 <= Len(cycle) /\ Len(cycle) <= max_depth}

\* NetworkXAdapter.detect_circular_trading
detect_circular_trading(max_depth) == detect_over(get_all_invoices, max_depth)

(***************************************************************************)
(* Reconciliation engine                                                   *)
(***************************************************************************)
MATCHED == "Matched"
CLAIMED_NOT_REPORTED == "Claimed by buyer but not reported by seller"
REPORTED_NOT_CLAIMED == "Reported by seller but not claimed by buyer"
BOTH_MISSING == "Neither reported nor claimed"
CIRCULAR_TRADE == "Circular trading pattern detected"
VENDOR_MISSED_FILINGS == "Vendor has missed return filings"

\* the classifier with the two one-sided classes exchanged
classify_mismatch_exchanged(inv) ==
    LET reported == Get(inv, "reported_by_seller", FALSE)
        claimed == Get(inv, "claimed_by_buyer", FALSE)
    IN  IF reported /\ claimed THEN MATCHED
        ELSE IF claimed /\ ~reported THEN REPORTED_NOT_CLAIMED
        ELSE IF reported /\ ~claimed THEN CLAIMED_NOT_REPORTED
        ELSE BOTH_MISSING

\* classify_mismatch
classify_mismatch(inv) ==
    LET reported == Get(inv, "reported_by_seller", FALSE)
        claimed == Get(inv, "claimed_by_buyer", FALSE)
    IN  IF reported /\ claimed THEN MATCHED
        ELSE IF claimed /\ ~reported THEN CLAIMED_NOT_REPORTED
        ELSE IF reported /\ ~claimed THEN REPORTED_NOT_CLAIMED
        ELSE BOTH_MISSING

DEFAULT_MAX_DEPTH == 5

\* the outcome of a call to the backend: the value it returned or the
\* exception it raised
Returned(value) == [raised |-> FALSE, value |-> value]
Raised(exception) == [raised |-> TRUE, value |-> exception]

\* the exceptions of a backend whose detect_circular_trading does not answer:
\* the operation is not implemented (NeptuneAdapter, ArangoAdapter) or the
\* query fails (Neo4jAdapter._run)
DetectFailures == {"NotImplementedError", "ServiceUnavailable"}

\* try: circular_chains = adapter.detect_circular_trading(max_depth=5)
\* except Exception: circular_chains = []
\* and circular_gstins, the union of the chains
circular_gstins_of(detected) ==
    LET circular_chains == IF detected.raised THEN {} ELSE detected.value
    IN  UNION {SeqToSet(chain) : chain \in circular_chains}

\* circular_gstins over the in-memory backend, whose detection returns
\* (reconcile_all_invoices, get_invoice_audit_trail, _get_circular_gstins)
get_circular_gstins ==
    circular_gstins_of(Returned(detect_circular_trading(DEFAULT_MAX_DEPTH)))

(***************************************************************************)
(* Risk scoring engine                                                     *)
(***************************************************************************)
\* WEIGHT_MISMATCH_TYPE with two of its weights exchanged
WEIGHT_MISMATCH_TYPE_exchanged(mtype) ==
    CASE mtype = CLAIMED_NOT_REPORTED -> 25
      [] mtype = REPORTED_NOT_CLAIMED -> 15
      [] mtype = BOTH_MISSING -> 35
      [] mtype = MATCHED -> 0
      [] mtype = CIRCULAR_TRADE -> 30
      [] mtype = VENDOR_MISSED_FILINGS -> 10
      [] OTHER -> 0

\* WEIGHT_MISMATCH_TYPE.get(mtype, 0)
WEIGHT_MISMATCH_TYPE(mtype) ==
    CASE mtype = CLAIMED_NOT_REPORTED -> 35
      [] mtype = REPORTED_NOT_CLAIMED -> 15
      [] mtype = BOTH_MISSING -> 25
      [] mtype = MATCHED -> 0
      [] mtype = CIRCULAR_TRADE -> 30
      [] mtype = VENDOR_MISSED_FILINGS -> 10
      [] OTHER -> 0

\* (threshold, points), highest threshold first
TAX_THRESHOLDS == <<<<100000, 20>>, <<50000, 15>>, <<20000, 10>>, <<0, 5>>>>

MISSED_FILINGS_FACTOR == 8
CIRCULAR_BONUS == 20

\* the loop of _tax_score over the thresholds not yet tried
RECURSIVE TaxScoreFrom(_, _)
TaxScoreFrom(thresholds, tax) ==
    IF thresholds = <<>> THEN 0
    ELSE IF tax >= Head(thresholds)[1] THEN Head(thresholds)[2]
    ELSE TaxScoreFrom(Tail(thresholds), tax)

\* _tax_score with the thresholds as exclusive lower bounds
tax_score_strict(tax) ==
    IF tax > 100000 THEN 20
    ELSE IF tax > 50000 THEN 15
    ELSE IF tax > 20000 THEN 10
    ELSE IF tax > 0 THEN 5
    ELSE 0

\* _tax_score
tax_score(tax) == TaxScoreFrom(TAX_THRESHOLDS, tax)

\* _level with its comparisons strict
level_strict(score) ==
    IF score > 70 THEN "critical"
    ELSE IF score > 50 THEN "high"
    ELSE IF score > 25 THEN "medium"
    ELSE "low"

\* _level
level(score) ==
    IF score >= 70 THEN "critical"
    ELSE IF score >= 50 THEN "high"
    ELSE IF score >= 25 THEN "medium"
    ELSE "low"

\* a clamp that lets the sum through
clamp_missing(score) == score

\* a clamp that wraps the sum around instead of saturating
clamp_wrapping(score) == score % 101

\* score = max(0, min(100, score))
clamp(score) == max(0, min(100, score))

\* one entry of reasons: the factor, the quantity it names (0 when it names
\* none) and the points it added
Reason(factor, quantity, points) ==
    [factor |-> factor, quantity |-> quantity, points |-> points]

\* score_invoice(inv, adapter, circular_gstins), given what its one adapter
\* call, get_vendor(seller_gstin), returned (None when the call is not made)
score_invoice_with(inv, circular_gstins, seller) ==
    LET mtype == classify_mismatch(inv)
        mtype_points == WEIGHT_MISMATCH_TYPE(mtype)
        tax == Get(inv, "tax", 0)
        tp == tax_score(tax)
        seller_gstin == Get(inv, "seller_gstin", "")
        buyer_gstin == Get(inv, "buyer_gstin", "")
        missed == IF seller = None THEN 0 ELSE Get(seller, "missed_filings", 0)
        pts == IF seller # None /\ missed > 0 THEN missed * MISSED_FILINGS_FACTOR ELSE 0
        circular == /\ circular_gstins # {}
                    /\ (seller_gstin \in circular_gstins \/ buyer_gstin \in circular_gstins)
        score == clamp(mtype_points + tp + pts + (IF circular THEN CIRCULAR_BONUS ELSE 0))
    IN  [risk_score |-> score,
         risk_level |-> level(score),
         reasons |->
            (IF mtype_points # 0 THEN <<Reason(mtype, 0, mtype_points)>> ELSE <<>>)
            \o <<Reason("Tax amount", tax, tp)>>
            \o (IF pts # 0 THEN <<Reason("Seller missed filings", missed, pts)>> ELSE <<>>)
            \o (IF circular
                THEN <<Reason("Circular trading involvement", 0, CIRCULAR_BONUS)>>
                ELSE <<>>)]

\* score_invoice(inv, adapter, circular_gstins) when no other thread writes
\* to the store while it runs
score_invoice(inv, circular_gstins) ==
    LET seller_gstin == Get(inv, "seller_gstin", "")
    IN  score_invoice_with(inv, circular_gstins,
                           IF seller_gstin # "" THEN get_vendor(seller_gstin) ELSE None)

\* the result of score_vendor for a GSTIN without a vendor record
NoVendorScore ==
    [risk_score |-> 0, risk_level |-> "low", compliance_score |-> 100, reasons |-> <<>>]

\* min(len(suspicious) * 25, 50)
suspicious_points(count) == min(count * 25, 50)

\* neighbour_gstins that keeps the vendor itself
neighbour_gstins_with_self(gstin, purchased, sold) ==
    {purchased[i].seller_gstin : i \in {j \in 1..Len(purchased) :
        purchased[j].seller_gstin # ""}}
    \cup
    {sold[i].buyer_gstin : i \in {j \in 1..Len(sold) : sold[j].buyer_gstin # ""}}

\* neighbour_gstins: the sellers of purchased and the buyers of sold, the
\* vendor itself and empty values left out
neighbour_gstins(gstin, purchased, sold) ==
    {purchased[i].seller_gstin : i \in {j \in 1..Len(purchased) :
        purchased[j].seller_gstin # "" /\ purchased[j].seller_gstin # gstin}}
    \cup
    {sold[i].buyer_gstin : i \in {j \in 1..Len(sold) :
        sold[j].buyer_gstin # "" /\ sold[j].buyer_gstin # gstin}}

\* all_vendors_map.get(g, {}).get("missed_filings", 0)
MissedFilingsOf(all_vendors, g) ==
    IF \E i \in 1..Len(all_vendors) : all_vendors[i].gstin = g
    THEN all_vendors[CHOOSE i \in 1..Len(all_vendors) : all_vendors[i].gstin = g].missed_filings
    ELSE 0

\* score_vendor(adapter, gstin, circular_gstins), given what its three
\* adapter calls returned: get_vendor(gstin), get_vendor_invoices(gstin) and
\* get_all_vendors()
score_vendor_with(gstin, circular_gstins, vendor, vendor_invoices, all_vendors) ==
    IF vendor = None THEN NoVendorScore
        ELSE
        LET missed == Get(vendor, "missed_filings", 0)
            missed_pts == IF missed # 0 THEN missed * MISSED_FILINGS_FACTOR ELSE 0
            purchased == vendor_invoices.purchased
            sold == vendor_invoices.sold
            suspicious == SelectSeq(purchased, IsSuspicious)
            susp_pts == IF suspicious # <<>> THEN suspicious_points(Len(suspicious)) ELSE 0
            high_risk_neighbours ==
                Cardinality({g \in neighbour_gstins(gstin, purchased, sold) :
                                MissedFilingsOf(all_vendors, g) >= 2})
            neighbour_pts == IF high_risk_neighbours > 0 THEN high_risk_neighbours * 5 ELSE 0
            possible_circular_trading == gstin \in circular_gstins
            score == clamp(missed_pts + susp_pts + neighbour_pts
                           + (IF possible_circular_trading THEN CIRCULAR_BONUS ELSE 0))
            compliance == max(0, 100 - score)
        IN  [gstin |-> gstin,
             name |-> Get(vendor, "name", ""),
             risk_score |-> score,
             risk_level |-> level(score),
             missed_filings |-> missed,
             total_incoming |-> Get(vendor, "total_incoming", 0),
             total_outgoing |-> Get(vendor, "total_outgoing", 0),
             suspicious_invoice_count |-> Len(suspicious),
             compliance_score |-> compliance,
             reasons |->
                (IF missed # 0 THEN <<Reason("Missed filings", missed, missed_pts)>> ELSE <<>>)
                \o (IF suspicious # <<>>
                    THEN <<Reason("suspicious incoming invoices", Len(suspicious), susp_pts)>>
                    ELSE <<>>)
                \o (IF high_risk_neighbours > 0
                    THEN <<Reason("high-risk neighbouring vendor(s)", high_risk_neighbours,
                                  neighbour_pts)>>
                    ELSE <<>>)
                \o (IF possible_circular_trading
                    THEN <<Reason("Involved in circular trading", 0, CIRCULAR_BONUS)>>
                    ELSE <<>>),
             possible_circular_trading |-> possible_circular_trading,
             high_risk_neighbours |-> high_risk_neighbours]

\* score_vendor(adapter, gstin, circular_gstins) when no other thread
\* writes to the store while it runs
score_vendor(gstin, circular_gstins) ==
    score_vendor_with(gstin, circular_gstins, get_vendor(gstin),
                      get_vendor_invoices(gstin), get_all_vendors)

(***************************************************************************)
(* Reconciliation engine: the list of mismatches and the audit trail       *)
(***************************************************************************)
\* one entry of reconcile_all_invoices, given the result of score_invoice:
\* {**inv, mismatch_type, risk_score, risk_level}
ReconcileEntryWith(inv, risk) ==
    [mismatch_type |-> classify_mismatch(inv),
     risk_score |-> risk.risk_score,
     risk_level |-> risk.risk_level] @@ inv

\* an entry that is scored without the cycle membership
ReconcileEntryNoCycles(inv, circular_gstins) ==
    ReconcileEntryWith(inv, score_invoice(inv, {}))

\* one entry of reconcile_all_invoices
ReconcileEntry(inv, circular_gstins) ==
    ReconcileEntryWith(inv, score_invoice(inv, circular_gstins))

\* a sort that puts an entry before the entries of equal risk_score
RECURSIVE InsertByRiskDescUnstable(_, _)
InsertByRiskDescUnstable(sorted, x) ==
    IF sorted = <<>> THEN <<x>>
    ELSE IF Head(sorted).risk_score > x.risk_score
         THEN <<Head(sorted)>> \o InsertByRiskDescUnstable(Tail(sorted), x)
         ELSE <<x>> \o sorted

\* list.sort(key=risk_score, reverse=True): stable, equal keys keep their
\* input order
RECURSIVE InsertByRiskDesc(_, _)
InsertByRiskDesc(sorted, x) ==
    IF sorted = <<>> THEN <<x>>
    ELSE IF Head(sorted).risk_score >= x.risk_score
         THEN <<Head(sorted)>> \o InsertByRiskDesc(Tail(sorted), x)
         ELSE <<x>> \o sorted

RECURSIVE SortByRiskDesc(_)
SortByRiskDesc(s) ==
    IF s = <<>> THEN <<>>
    ELSE InsertByRiskDesc(SortByRiskDesc(SubSeq(s, 1, Len(s) - 1)), s[Len(s)])

\* reconcile_all_invoices(adapter), given the outcome of the adapter's
\* detect_circular_trading
reconcile_all_invoices_given(detected) ==
    LET mismatches == get_mismatched_invoices
        circular_gstins == circular_gstins_of(detected)
        results == [i \in 1..Len(mismatches) |->
                       ReconcileEntry(mismatches[i], circular_gstins)]
    IN  SortByRiskDesc(results)

\* reconcile_all_invoices(adapter) over the in-memory backend
reconcile_all_invoices ==
    reconcile_all_invoices_given(Returned(detect_circular_trading(DEFAULT_MAX_DEPTH)))

\* one step of the trail; the description is kept as its template and the
\* values formatted into it
TrailStep(step, template, values, status) ==
    [step |-> step, description |-> <<template>> \o values, status |-> status]

\* _generate_explanation: the templates joined, with the values they embed
generate_explanation(trail, mtype, risk, in_circular) ==
    <<<<"transaction", Get(trail, "invoice_id", "?"), Get(trail, "amount", 0),
        Get(trail, "tax", 0),
        Get(trail, "seller_name", Get(trail, "seller_gstin", "Unknown")),
        Get(trail, "buyer_name", Get(trail, "buyer_gstin", "Unknown"))>>>>
    \o (IF mtype = CLAIMED_NOT_REPORTED THEN <<<<"claimed but not reported">>>>
        ELSE IF mtype = REPORTED_NOT_CLAIMED THEN <<<<"reported but not claimed">>>>
        ELSE IF mtype = BOTH_MISSING THEN <<<<"neither reported nor claimed">>>>
        ELSE <<>>)
    \o (IF Get(trail, "seller_missed_filings", 0) > 0
        THEN <<<<"seller missed filings", Get(trail, "seller_missed_filings", 0)>>>>
        ELSE <<>>)
    \o (IF in_circular THEN <<<<"circular trading pattern">>>> ELSE <<>>)
    \o <<<<"overall risk score", risk.risk_score, risk.risk_level>>>>

\* get_invoice_audit_trail(adapter, invoice_id), given what its adapter
\* calls returned: the trail of get_invoice_trail, the GSTINs of the
\* detected cycles and the seller that score_invoice read
get_invoice_audit_trail_with(invoice_id, trail_data, circular_gstins, seller) ==
    IF trail_data = EmptyDict THEN EmptyDict
        ELSE
        LET mtype == classify_mismatch(trail_data)
            in_circular == \/ Get(trail_data, "seller_gstin", "") \in circular_gstins
                           \/ Get(trail_data, "buyer_gstin", "") \in circular_gstins
            risk == score_invoice_with(trail_data, circular_gstins, seller)
            reported == Get(trail_data, "reported_by_seller", FALSE)
            claimed == Get(trail_data, "claimed_by_buyer", FALSE)
            seller_missed == Get(trail_data, "seller_missed_filings", 0)
            step1 == TrailStep(1, "Invoice",
                               <<invoice_id, Get(trail_data, "amount", 0),
                                 Get(trail_data, "tax", 0),
                                 Get(trail_data, "seller_name", "Unknown"),
                                 Get(trail_data, "buyer_name", "Unknown")>>, "ok")
            step2 == TrailStep(2, IF reported THEN "Seller filed GSTR-1"
                                  ELSE "Seller did NOT file GSTR-1",
                               <<Get(trail_data, "seller_gstin", "")>>,
                               IF reported THEN "ok" ELSE "error")
            step3 == TrailStep(3, IF claimed THEN "Buyer claimed ITC in GSTR-2B"
                                  ELSE "Buyer did NOT claim ITC in GSTR-2B",
                               <<Get(trail_data, "buyer_gstin", "")>>,
                               IF claimed /\ ~reported THEN "warning" ELSE "ok")
            steps4 == IF seller_missed > 0
                      THEN <<TrailStep(4, "Seller has missed return filings",
                                       <<seller_missed>>, "warning")>>
                      ELSE <<>>
            steps5 == IF in_circular
                      THEN <<TrailStep(4 + Len(steps4), "Parties in circular trading",
                                       <<>>, "error")>>
                      ELSE <<>>
        IN  [invoice_id |-> invoice_id,
             seller_gstin |-> Get(trail_data, "seller_gstin", ""),
             seller_name |-> Get(trail_data, "seller_name", "Unknown"),
             buyer_gstin |-> Get(trail_data, "buyer_gstin", ""),
             buyer_name |-> Get(trail_data, "buyer_name", "Unknown"),
             amount |-> Get(trail_data, "amount", 0),
             tax |-> Get(trail_data, "tax", 0),
             reported_by_seller |-> reported,
             claimed_by_buyer |-> claimed,
             mismatch_type |-> mtype,
             risk_score |-> risk.risk_score,
             risk_level |-> risk.risk_level,
             trail |-> <<step1, step2, step3>> \o steps4 \o steps5,
             explanation |-> generate_explanation(trail_data, mtype, risk, in_circular)]

\* get_invoice_audit_trail(adapter, invoice_id), given the outcome of the
\* adapter's detect_circular_trading, when no other thread writes to the
\* store while it runs
get_invoice_audit_trail_given(invoice_id, detected) ==
    LET trail_data == get_invoice_trail(invoice_id)
        seller_gstin == Get(trail_data, "seller_gstin", "")
    IN  get_invoice_audit_trail_with(
            invoice_id, trail_data, circular_gstins_of(detected),
            IF seller_gstin # "" THEN get_vendor(seller_gstin) ELSE None)

\* an audit trail whose circular-trading step is numbered 5 wherever it
\* stands
get_invoice_audit_trail_numbered_by_kind(invoice_id) ==
    LET audit == get_invoice_audit_trail_given(
                     invoice_id, Returned(detect_circular_trading(DEFAULT_MAX_DEPTH)))
    IN  IF audit = EmptyDict THEN EmptyDict
        ELSE LET trail == audit.trail
             IN  [audit EXCEPT !.trail =
                     [i \in 1..Len(trail) |->
                         IF trail[i].description[1] = "Parties in circular trading"
                         THEN [trail[i] EXCEPT !.step = 5]
                         ELSE trail[i]]]

\* get_invoice_audit_trail(adapter, invoice_id) over the in-memory backend
get_invoice_audit_trail(invoice_id) ==
    get_invoice_audit_trail_given(invoice_id,
                                  Returned(detect_circular_trading(DEFAULT_MAX_DEPTH)))

\* the read results of the store, for every probed key
Observable ==
    [get_vendor |-> [k \in ReadKeys |-> get_vendor(k)],
     get_invoice |-> [k \in ReadKeys |-> get_invoice(k)],
     get_vendor_invoices |-> [k \in ReadKeys |-> get_vendor_invoices(k)],
     get_mismatched_invoices |-> get_mismatched_invoices,
     detect_circular_trading |-> [d \in 0..DEFAULT_MAX_DEPTH |-> detect_circular_trading(d)],
     get_graph_summary |-> get_graph_summary]

(***************************************************************************)
(* The call in progress                                                    *)
(***************************************************************************)
\* the threads of the client of the adapter
Threads == {"t1", "t2"}

\* the thread is in no call
Idle == [at |-> "idle"]
NoRequests == [t \in Threads |-> Idle]

(***************************************************************************)
(* Neo4jAdapter: the graph of labelled nodes and typed relationships       *)
(***************************************************************************)
\* a property that a node does not have reads as null
Null == [null |-> TRUE]

\* the graph after MATCH (n) DETACH DELETE n: the nodes of each label, each
\* with its key property and its other properties, and the relationships
Neo4jEmpty == [Vendor |-> {}, Invoice |-> {}, Return |-> {}, rels |-> {}]

\* MERGE (n:Label {key}): the node is created, without other properties,
\* unless a node of the label has the key
Neo4jMerge(nodes, key) ==
    IF \E n \in nodes : n.key = key THEN nodes
    ELSE nodes \cup {[key |-> key, props |-> EmptyDict]}

\* SET n.p = v, ... on the node of the label with the key
Neo4jSet(nodes, key, props) ==
    {IF n.key = key THEN [key |-> key, props |-> Update(n.props, props)] ELSE n :
        n \in nodes}

\* (from)-[:type]->(to), each end by its label and key
Rel(type, fromLabel, from, toLabel, to) ==
    [type |-> type, from |-> <<fromLabel, from>>, to |-> <<toLabel, to>>]

\* Neo4jAdapter.clear
Neo4j_clear(db) == Neo4jEmpty

\* the schema statements of Neo4jAdapter.create_constraints, by position
CONSTRAINT_STATEMENTS == {1, 2, 3, 4, 5}

\* Neo4jAdapter.create_constraints: each statement runs in its own
\* try/except, a failing one is passed over; none touches a node
Neo4j_create_constraints(db, failing) == db

\* Neo4jAdapter.upsert_vendor
Neo4j_upsert_vendor(db, gstin, name, missed_filings) ==
    [db EXCEPT !.Vendor = Neo4jSet(Neo4jMerge(@, gstin), gstin,
                                   [name |-> name, missed_filings |-> missed_filings])]

\* Neo4jAdapter.upsert_invoice: seller and buyer are merged as Vendor nodes,
\* the invoice is merged and set, the two relationships are merged, and a
\* Return node is merged for each flag that is true
Neo4j_upsert_invoice(db, invoice_id, seller_gstin, buyer_gstin, amount, tax, reported_by_seller, claimed_by_buyer) ==
    LET vendors == Neo4jMerge(Neo4jMerge(db.Vendor, seller_gstin), buyer_gstin)
        invoices == Neo4jSet(Neo4jMerge(db.Invoice, invoice_id), invoice_id,
                             [seller_gstin |-> seller_gstin,
                              buyer_gstin |-> buyer_gstin,
                              amount |-> amount, tax |-> tax,
                              reported_by_seller |-> reported_by_seller,
                              claimed_by_buyer |-> claimed_by_buyer])
        gstr1 == <<invoice_id, "GSTR-1">>
        gstr2b == <<invoice_id, "GSTR-2B">>
        returns == (IF reported_by_seller THEN {gstr1} ELSE {})
                   \cup (IF claimed_by_buyer THEN {gstr2b} ELSE {})
        rels == {Rel("SOLD", "Vendor", seller_gstin, "Invoice", invoice_id),
                 Rel("PURCHASED_BY", "Invoice", invoice_id, "Vendor", buyer_gstin)}
                \cup (IF reported_by_seller
                      THEN {Rel("FILED", "Vendor", seller_gstin, "Return", gstr1),
                            Rel("REPORTS", "Return", gstr1, "Invoice", invoice_id)}
                      ELSE {})
                \cup (IF claimed_by_buyer
                      THEN {Rel("FILED", "Vendor", buyer_gstin, "Return", gstr2b),
                            Rel("CLAIMS", "Return", gstr2b, "Invoice", invoice_id)}
                      ELSE {})
    IN  [Vendor |-> vendors,
         Invoice |-> invoices,
         Return |-> db.Return \cup returns,
         rels |-> db.rels \cup rels]

\* Neo4jAdapter.get_vendor: rows[0] if rows else None
Neo4j_get_vendor(db, gstin) ==
    IF ~\E v \in db.Vendor : v.key = gstin THEN None
    ELSE LET v == CHOOSE n \in db.Vendor : n.key = gstin
             sold == {i \in db.Invoice :
                         Rel("SOLD", "Vendor", gstin, "Invoice", i.key) \in db.rels}
             purchased == {i \in db.Invoice :
                              Rel("PURCHASED_BY", "Invoice", i.key, "Vendor", gstin)
                                  \in db.rels}
         IN  [gstin |-> gstin,
              name |-> Get(v.props, "name", Null),
              missed_filings |-> Get(v.props, "missed_filings", Null),
              total_outgoing |-> Cardinality(sold),
              total_incoming |-> Cardinality(purchased)]

\* Neo4jAdapter.get_graph_summary: rows[0] if rows else {}. The first
\* count has no grouping key and gives one row; each later MATCH ... WITH
\* groups by the counts so far and gives no row when it matches no invoice
Neo4j_get_graph_summary(db) ==
    LET mismatched == {i \in db.Invoice :
                          i.props.reported_by_seller # i.props.claimed_by_buyer}
        suspicious == {i \in db.Invoice :
                          i.props.claimed_by_buyer /\ ~i.props.reported_by_seller}
    IN  IF db.Invoice = {} \/ mismatched = {} \/ suspicious = {} THEN EmptyDict
        ELSE [vendor_count |-> Cardinality(db.Vendor),
              invoice_count |-> Cardinality(db.Invoice),
              mismatch_count |-> Cardinality(mismatched),
              suspicious_count |-> Cardinality(suspicious)]

(***************************************************************************)
(* create_constraints of the four backends                                 *)
(***************************************************************************)
Backends == {"networkx", "neo4j", "neptune", "arango"}

\* the outcome of adapter.create_constraints(): NetworkXAdapter and
\* NeptuneAdapter pass, Neo4jAdapter passes over the statements that fail,
\* ArangoAdapter raises NotImplementedError
create_constraints_outcome(backend, failing) ==
    IF backend = "arango" THEN Raised("NotImplementedError") ELSE Returned(None)

(***************************************************************************)
(* History                                                                 *)
(***************************************************************************)
NoCall == [none |-> TRUE]
NoHistory == [k \in AllKeys |-> [latest |-> "none", vendor |-> NoCall, invoice |-> NoCall]]

VendorCall(name, missed_filings) == [name |-> name, missed_filings |-> missed_filings]

InvoiceCall(seller_gstin, buyer_gstin, amount, tax, reported_by_seller, claimed_by_buyer) ==
    [seller_gstin |-> seller_gstin, buyer_gstin |-> buyer_gstin, amount |-> amount,
     tax |-> tax, reported_by_seller |-> reported_by_seller,
     claimed_by_buyer |-> claimed_by_buyer]

\* the last operation: its name and key, whether it repeated the previous
\* upsert of its key, the read results before it when it did, the number
\* of nodes a clear() removed, for an upsert_vendor that raised the
\* vendor's missed_filings by one (name unchanged) the vendor's risk score
\* before it, for every cycle-membership set, and for a step of a read
\* that a thread makes: the engine functions the adapter call was made
\* within, and what the read returned when the step was its last
NoObservation == [none |-> TRUE]
NoOp == [op |-> "init", key |-> "", repeat |-> FALSE, before |-> NoObservation,
         removed |-> 0, raised |-> FALSE, score_before |-> NoObservation,
         within |-> {}, answer |-> NoObservation]

\* the call raises the stored vendor's missed_filings by one, name unchanged
RaisesMissedFilings(gstin, name, missed_filings) ==
    /\ get_vendor(gstin) # None
    /\ get_vendor(gstin).name = name
    /\ get_vendor(gstin).missed_filings + 1 = missed_filings

\* the call repeats the previous upsert of its key, fields identical
RepeatsVendor(gstin, name, missed_filings) ==
    /\ hist[gstin].latest = "vendor"
    /\ hist[gstin].vendor = VendorCall(name, missed_filings)

RepeatsInvoice(invoice_id, seller_gstin, buyer_gstin, amount, tax, reported_by_seller, claimed_by_buyer) ==
    /\ hist[invoice_id].latest = "invoice"
    /\ hist[invoice_id].invoice =
         InvoiceCall(seller_gstin, buyer_gstin, amount, tax,
                     reported_by_seller, claimed_by_buyer)

(***************************************************************************)
(* Operations of the store, as a client calls them                         *)
(***************************************************************************)
Init ==
    /\ G_node = <<>>
    /\ G_edges = <<>>
    /\ hist = NoHistory
    /\ last = NoOp
    /\ ops = 0
    /\ pending = <<>>
    /\ inflight = NoRequests
    /\ neo4j = Neo4jEmpty

UpsertVendor(gstin, name, missed_filings) ==
    /\ upsert_vendor(gstin, name, missed_filings)
    /\ hist' = [hist EXCEPT ![gstin].latest = "vendor",
                            ![gstin].vendor = VendorCall(name, missed_filings)]
    /\ last' = [NoOp EXCEPT !.op = "upsert_vendor", !.key = gstin,
                            !.repeat = RepeatsVendor(gstin, name, missed_filings),
                            !.before = IF RepeatsVendor(gstin, name, missed_filings)
                                       THEN Observable ELSE NoObservation,
                            !.raised = RaisesMissedFilings(gstin, name, missed_filings),
                            !.score_before =
                                IF RaisesMissedFilings(gstin, name, missed_filings)
                                THEN [c \in CircularSets |->
                                         score_vendor(gstin, c).risk_score]
                                ELSE NoObservation]
    /\ ops' = ops + 1
    /\ UNCHANGED <<inflight, neo4j>>

UpsertInvoice(invoice_id, seller_gstin, buyer_gstin, amount, tax, reported_by_seller, claimed_by_buyer) ==
    /\ upsert_invoice(invoice_id, seller_gstin, buyer_gstin, amount, tax,
                      reported_by_seller, claimed_by_buyer)
    /\ hist' = [hist EXCEPT ![invoice_id].latest = "invoice",
                            ![invoice_id].invoice =
                                InvoiceCall(seller_gstin, buyer_gstin, amount, tax,
                                            reported_by_seller, claimed_by_buyer)]
    /\ LET repeat == RepeatsInvoice(invoice_id, seller_gstin, buyer_gstin, amount,
                                    tax, reported_by_seller, claimed_by_buyer)
       IN  last' = [NoOp EXCEPT !.op = "upsert_invoice", !.key = invoice_id,
                                !.repeat = repeat,
                                !.before = IF repeat THEN Observable ELSE NoObservation]
    /\ ops' = ops + 1
    /\ UNCHANGED <<inflight, neo4j>>

Clear ==
    /\ ops < MaxOps
    /\ clear
    /\ hist' = NoHistory
    /\ last' = [NoOp EXCEPT !.op = "clear", !.removed = Len(G_node)]
    /\ ops' = ops + 1
    /\ UNCHANGED <<pending, inflight, neo4j>>

VendorStep ==
    /\ ops < MaxOps
    /\ \E gstin \in VendorKeyInputs, name \in Names, missed_filings \in MissedInputs :
          UpsertVendor(gstin, name, missed_filings)
    /\ UNCHANGED pending

InvoiceStep ==
    /\ ops < MaxOps
    /\ \E invoice_id \in InvoiceIds, seller_gstin \in Gstins, buyer_gstin \in Gstins,
          amount \in AmountInputs, tax \in TaxInputs,
          reported_by_seller \in BOOLEAN, claimed_by_buyer \in BOOLEAN :
          UpsertInvoice(invoice_id, seller_gstin, buyer_gstin, amount, tax,
                        reported_by_seller, claimed_by_buyer)
    /\ UNCHANGED pending

Next == VendorStep \/ InvoiceStep \/ Clear

Spec == Init /\ [][Next]_vars

(***************************************************************************)
(* Invoices among three vendors, for circular-trading detection: the       *)
(* detector reads seller_gstin and buyer_gstin only, the other fields are  *)
(* held fixed.                                                             *)
(***************************************************************************)
CycleInvoiceStep ==
    /\ ops < MaxCycleOps
    /\ \E invoice_id \in CycleInvoiceIds, seller_gstin \in CycleGstins,
          buyer_gstin \in CycleGstins, amount \in AmountInputs, tax \in CycleTaxInputs :
          UpsertInvoice(invoice_id, seller_gstin, buyer_gstin, amount, tax, FALSE, TRUE)
    /\ UNCHANGED pending

NextCycle == CycleInvoiceStep

SpecCycle == Init /\ [][NextCycle]_vars

(***************************************************************************)
(* load_csv on a dense invoices.csv (no vendors.csv): five vendors with an *)
(* invoice in every direction between each pair, at most one row left out. *)
(* One step reads one row and upserts it.                                  *)
(***************************************************************************)
DenseCount == Len(DenseGstinSeq)

\* row k of the dense file: sellers in order, each with its buyers in order
DenseRow(k, amount, tax) ==
    LET s == ((k - 1) \div (DenseCount - 1)) + 1
        j == ((k - 1) % (DenseCount - 1)) + 1
        b == IF j < s THEN j ELSE j + 1
    IN  [invoice_id |-> DenseInvoiceIds[k],
         seller_gstin |-> DenseGstinSeq[s],
         buyer_gstin |-> DenseGstinSeq[b],
         amount |-> amount, tax |-> tax,
         reported_by_seller |-> FALSE, claimed_by_buyer |-> TRUE]

DenseFile(amount, tax) ==
    [k \in 1..(DenseCount * (DenseCount - 1)) |-> DenseRow(k, amount, tax)]

\* the file without its row k (the whole file for k = 0)
WithoutRow(file, k) ==
    IF k = 0 THEN file
    ELSE SubSeq(file, 1, k - 1) \o SubSeq(file, k + 1, Len(file))

InitDense ==
    /\ G_node = <<>>
    /\ G_edges = <<>>
    /\ hist = NoHistory
    /\ last = NoOp
    /\ ops = 0
    /\ \E amount \in AmountInputs, tax \in TaxInputs :
          pending \in {WithoutRow(DenseFile(amount, tax), k) :
                          k \in 0..Len(DenseFile(amount, tax))}
    /\ inflight = NoRequests
    /\ neo4j = Neo4jEmpty

\* load_csv: one iteration of the loop over invoices.csv
LoadInvoiceRow ==
    /\ pending # <<>>
    /\ LET row == Head(pending)
       IN  UpsertInvoice(row.invoice_id, row.seller_gstin, row.buyer_gstin, row.amount,
                         row.tax, row.reported_by_seller, row.claimed_by_buyer)
    /\ pending' = Tail(pending)

NextDense == LoadInvoiceRow

SpecDense == InitDense /\ [][NextDense]_vars

(***************************************************************************)
(* load_csv on a batch (vendors.csv, then invoices.csv) into a store that   *)
(* was just constructed. pending lists the rows not yet read, each by its  *)
(* kind and key; the other columns of a row are drawn when the row is      *)
(* read. No key occurs twice in a batch. A slot of kind "raise" is the one *)
(* row of the vendors.csv of a later load_csv call.                        *)
(***************************************************************************)
VendorSlot(gstin) == [kind |-> "vendor", key |-> gstin]
InvoiceSlot(invoice_id) == [kind |-> "invoice", key |-> invoice_id]
RaiseSlot == [kind |-> "raise", key |-> ""]

VendorSlots(gstins) == [i \in 1..Len(gstins) |-> VendorSlot(gstins[i])]
InvoiceSlots(ids) == [i \in 1..Len(ids) |-> InvoiceSlot(ids[i])]

\* the files that hold some of the rows of s, in the order of s
RECURSIVE SubSeqsOf(_)
SubSeqsOf(s) ==
    IF s = <<>> THEN {<<>>}
    ELSE LET rest == SubSeqsOf(Tail(s))
         IN  rest \cup {<<Head(s)>> \o r : r \in rest}

\* the files that hold the first rows of s
PrefixesOf(s) == {SubSeq(s, 1, k) : k \in 0..Len(s)}

InitBatch(batches) ==
    /\ G_node = <<>>
    /\ G_edges = <<>>
    /\ hist = NoHistory
    /\ last = NoOp
    /\ ops = 0
    /\ pending \in batches
    /\ inflight = NoRequests
    /\ neo4j = Neo4jEmpty

(***************************************************************************)
(* The reconciliation engine over a batch of at most two vendors and two   *)
(* invoices between them, every flag pair and two tax tiers.               *)
(***************************************************************************)
ReconcileBatches ==
    {v \o InvoiceSlots(ReconcileInvoiceIdSeq) :
        v \in SubSeqsOf(VendorSlots(ReconcileGstinSeq))}

InitReconcile == InitBatch(ReconcileBatches)

\* load_csv: one iteration of the loop over vendors.csv
ReconcileVendorRow ==
    /\ pending # <<>>
    /\ Head(pending).kind = "vendor"
    /\ \E name \in RowNames, missed_filings \in ReconcileMissedInputs :
          UpsertVendor(Head(pending).key, name, missed_filings)
    /\ pending' = Tail(pending)

\* load_csv: one iteration of the loop over invoices.csv
ReconcileInvoiceRow ==
    /\ pending # <<>>
    /\ Head(pending).kind = "invoice"
    /\ \E seller_gstin \in SeqToSet(ReconcileGstinSeq),
          buyer_gstin \in SeqToSet(ReconcileGstinSeq),
          amount \in AmountInputs, tax \in TaxInputs,
          reported_by_seller \in BOOLEAN, claimed_by_buyer \in BOOLEAN :
          UpsertInvoice(Head(pending).key, seller_gstin, buyer_gstin, amount, tax,
                        reported_by_seller, claimed_by_buyer)
    /\ pending' = Tail(pending)

NextReconcile == ReconcileVendorRow \/ ReconcileInvoiceRow

SpecReconcile == InitReconcile /\ [][NextReconcile]_vars

(***************************************************************************)
(* The vendor scores over a batch of at most three vendors and three       *)
(* invoices of vendor A, followed by a load_csv of a vendors.csv whose one *)
(* row raises a stored vendor's missed_filings by one.                     *)
(***************************************************************************)
ScoreBatches ==
    {v \o i \o [k \in 1..MaxRaises |-> RaiseSlot] :
        v \in SubSeqsOf(VendorSlots(ScoreGstinSeq)),
        i \in PrefixesOf(InvoiceSlots(ScoreInvoiceIdSeq))}

InitScore == InitBatch(ScoreBatches)

\* load_csv: one iteration of the loop over vendors.csv
ScoreVendorRow ==
    /\ pending # <<>>
    /\ Head(pending).kind = "vendor"
    /\ \E row \in ScoreVendorRows :
          /\ row.gstin = Head(pending).key
          /\ UpsertVendor(row.gstin, row.name, row.missed_filings)
    /\ pending' = Tail(pending)

\* load_csv: one iteration of the loop over invoices.csv
ScoreInvoiceRow ==
    /\ pending # <<>>
    /\ Head(pending).kind = "invoice"
    /\ \E trade \in ScoreTrades, amount \in AmountInputs, tax \in CycleTaxInputs,
          flags \in ScoreFlags :
          UpsertInvoice(Head(pending).key, trade[1], trade[2], amount, tax,
                        flags[1], flags[2])
    /\ pending' = Tail(pending)

\* load_csv of a later vendors.csv: one row, a stored vendor with its name
\* and its missed_filings plus one
RaiseMissedFilings ==
    /\ pending # <<>>
    /\ Head(pending).kind = "raise"
    /\ \E i \in 1..Len(get_all_vendors) :
          UpsertVendor(get_all_vendors[i].gstin, get_all_vendors[i].name,
                       get_all_vendors[i].missed_filings + 1)
    /\ pending' = Tail(pending)

NextScore == ScoreVendorRow \/ ScoreInvoiceRow \/ RaiseMissedFilings

SpecScore == InitScore /\ [][NextScore]_vars

(***************************************************************************)
(* The tax tiers: a batch of at most one vendor and one invoice whose tax  *)
(* lies on, just below or just above a threshold.                          *)
(***************************************************************************)
TierBatches ==
    {v \o InvoiceSlots(TierInvoiceIdSeq) : v \in SubSeqsOf(VendorSlots(TierGstinSeq))}

InitTiers == InitBatch(TierBatches)

\* load_csv: one iteration of the loop over invoices.csv
TierInvoiceRow ==
    /\ pending # <<>>
    /\ Head(pending).kind = "invoice"
    /\ \E seller_gstin \in Gstins, buyer_gstin \in Gstins, amount \in AmountInputs,
          tax \in TierTaxInputs, reported_by_seller \in BOOLEAN,
          claimed_by_buyer \in BOOLEAN :
          UpsertInvoice(Head(pending).key, seller_gstin, buyer_gstin, amount, tax,
                        reported_by_seller, claimed_by_buyer)
    /\ pending' = Tail(pending)

NextTiers == ReconcileVendorRow \/ TierInvoiceRow

SpecTiers == InitTiers /\ [][NextTiers]_vars

(***************************************************************************)
(* One NetworkXAdapter called from two threads of its client. The adapter  *)
(* and the engines hold no lock, so the calls interleave. A step of a      *)
(* thread is one access to the graph self.G: a membership test, a lookup   *)
(* in G.nodes, the creation or the advance of an iterator over one of its  *)
(* dicts, one attrs.get(...) on the attribute dict of a node, clear,       *)
(* add_node, add_edge; the local computation that follows the access is    *)
(* part of the step. Where one expression obtains an attribute dict and    *)
(* reads it (self.G.nodes[n].get("type"), and the attrs.get("type") that   *)
(* opens the body of a loop over self.G.nodes(data=True)) the two are one  *)
(* step: a write of another thread changes what the one gives or what the  *)
(* other gives, never both.                                                *)
(***************************************************************************)
VendorRow(gstin, name, missed_filings) ==
    [gstin |-> gstin, name |-> name, missed_filings |-> missed_filings]

InvoiceRow(invoice_id, seller_gstin, buyer_gstin, amount, tax, reported_by_seller, claimed_by_buyer) ==
    [invoice_id |-> invoice_id, seller_gstin |-> seller_gstin,
     buyer_gstin |-> buyer_gstin, amount |-> amount, tax |-> tax,
     reported_by_seller |-> reported_by_seller,
     claimed_by_buyer |-> claimed_by_buyer]

\* the arguments of the writes: a vendor that is written with two names and
\* two numbers of missed filings, a vendor that an invoice names before it
\* is written, and two invoices between the two, one each way
WriteVendorRows ==
    {VendorRow("A", "n1", 2), VendorRow("A", "n2", 0), VendorRow("B", "n2", 2)}
WriteInvoiceRows ==
    {InvoiceRow("I1", "A", "B", 1000, 5000, FALSE, TRUE),
     InvoiceRow("I2", "B", "A", 1000, 5000, TRUE, TRUE)}

\* the arguments of the reads
ReadInvoiceArgs == {"I1"}
ReadGstinArgs == {"A"}
ReadCircularArgs == {{}, {"A"}}

\* the record of a step
Did(op, key) == [NoOp EXCEPT !.op = op, !.key = key]

(***************************************************************************)
(* The reads of NetworkXAdapter, one access to self.G at a time. A frame   *)
(* holds the locals of a call: it (the iterator over G.nodes(data=True) or *)
(* over G.edges()), nit (the iterator over an adjacency dict), attrs (the  *)
(* attribute dict of a node), got (what the call has read from attrs),     *)
(* vendor_graph, and what the call has collected.                          *)
(***************************************************************************)
\* an iterator over the node dict of the graph: the size of the dict when
\* the iterator was made and the number of entries it has yielded
NoIter == [used |-> 0, pos |-> 0]
NodeIter == [used |-> Len(G_node), pos |-> 0]

\* an adjacency dict self.G._succ[node] or self.G._pred[node] and the
\* iterator over it; live while the dict is the graph's, and after a
\* G.clear() the dict keeps the items it held
NoNbrs == [node |-> "", dir |-> "succ", used |-> 0, pos |-> 0, live |-> FALSE, items |-> <<>>]
NbrsOf(nit) ==
    IF ~nit.live THEN nit.items
    ELSE IF nit.dir = "succ" THEN successors(nit.node) ELSE predecessors(nit.node)

\* the attribute dict self.G.nodes[node]; live while it is the graph's, and
\* after a G.clear() it keeps the attributes it held
NoRef == [node |-> "", live |-> FALSE, snap |-> EmptyDict]
Ref(node) == [node |-> node, live |-> TRUE, snap |-> EmptyDict]
Deref(ref) == IF ref.live THEN NodeAttrs(ref.node) ELSE ref.snap

\* a graph object: its node dict and its adjacency
DiGraph(nodes, edges) == [nodes |-> nodes, edges |-> edges]

\* the frame of a call of self.get_invoice or self.get_vendor made by
\* another method of the adapter
NoSub == [method |-> "none"]
SubCall(method, arg) ==
    [method |-> method, arg |-> arg, at |-> "contains", node |-> arg, n |-> "",
     nit |-> NoNbrs, attrs |-> NoRef, got |-> EmptyDict, sold |-> <<>>,
     purchased |-> <<>>, result |-> None]

\* the first access of each read
FirstAccess(method) ==
    IF method \in {"get_vendor", "get_invoice"} THEN "contains"
    ELSE IF method = "get_vendor_invoices" THEN "successors"
    ELSE IF method = "get_invoice_trail" THEN "get_invoice"
    ELSE "iter"

\* the frame of a call of the adapter made by a client or an engine;
\* vendor_graph = nx.DiGraph() in detect_circular_trading
EnterCall(method, arg) ==
    [method |-> method, arg |-> arg, at |-> FirstAccess(method), node |-> arg,
     n |-> "", nit |-> NoNbrs, attrs |-> NoRef, got |-> EmptyDict, sold |-> <<>>,
     purchased |-> <<>>, result |-> None, it |-> NoIter, seen |-> <<>>, k |-> 1,
     count |-> 0, inv |-> None, seller |-> None, vendor_graph |-> DiGraph(<<>>, <<>>),
     sub |-> IF method = "get_invoice_trail" THEN SubCall("get_invoice", arg) ELSE NoSub]

\* return and raise
Ret(c, value) == [c EXCEPT !.at = "return", !.result = Returned(value)]
Raise(c, exception) == [c EXCEPT !.at = "return", !.result = Raised(exception)]

\* next() of a dict iterator: RuntimeError when the dict has changed size
\* since the iterator was made, StopIteration after the last entry
dict_next(used, pos, entries) ==
    IF Len(entries) # used THEN [kind |-> "RuntimeError"]
    ELSE IF pos >= Len(entries) THEN [kind |-> "StopIteration"]
    ELSE [kind |-> "item", item |-> entries[pos + 1]]

\* attrs.get(key, default) on the attribute dict the call holds; the value
\* is kept under the key in the locals of the call
Read(c, key, default) ==
    [c EXCEPT !.got = (key :> Get(Deref(c.attrs), key, default)) @@ @]

\* the loop body is over: the locals of the iteration are dropped
Dropped(c) == [c EXCEPT !.attrs = NoRef, !.got = EmptyDict, !.node = "", !.at = "next"]

\* the keys that get_invoice reads from a, in the order of its dict display,
\* and the default of each
InvoiceKeys ==
    <<"seller_gstin", "buyer_gstin", "amount", "tax", "reported_by_seller",
      "claimed_by_buyer">>
InvoiceDefault(key) ==
    IF key \in {"seller_gstin", "buyer_gstin"} THEN ""
    ELSE IF key \in {"amount", "tax"} THEN 0
    ELSE FALSE

\* the key that follows `key` in keys
NextKey(keys, key) == keys[1 + CHOOSE i \in 1..Len(keys) : keys[i] = key]

\* NetworkXAdapter.get_invoice: invoice_id in self.G, self.G.nodes[...] for
\* the type, a = self.G.nodes[...], and the six a.get(...) of the dict
get_invoice_step(c) ==
    IF c.at = "contains"
    THEN IF HasNode(G_node, c.arg) THEN [c EXCEPT !.at = "type"] ELSE Ret(c, None)
    ELSE IF c.at = "type"
    THEN IF ~HasNode(G_node, c.arg) THEN Raise(c, "KeyError")
         ELSE IF NodeType(c.arg) = "invoice" THEN [c EXCEPT !.at = "attrs"]
         ELSE Ret(c, None)
    ELSE IF c.at = "attrs"
    THEN IF ~HasNode(G_node, c.arg) THEN Raise(c, "KeyError")
         ELSE [c EXCEPT !.attrs = Ref(c.arg), !.at = "seller_gstin"]
    ELSE IF c.at = "claimed_by_buyer"
    THEN Ret(c, InvoiceDict(c.arg, Read(c, c.at, InvoiceDefault(c.at)).got))
    ELSE [Read(c, c.at, InvoiceDefault(c.at)) EXCEPT !.at = NextKey(InvoiceKeys, c.at)]

\* what a loop over the neighbours of c.node has taken: the invoice dict in
\* get_vendor_invoices, the node in the list comprehensions
Listed(c, out, x) ==
    IF out THEN [c EXCEPT !.sold = Append(@, x), !.at = "succ_next"]
    ELSE [c EXCEPT !.purchased = Append(@, x), !.at = "pred_next"]

\* get_vendor_invoices after an access of its call self.get_invoice(n): sub
\* is the frame of that call
ListedInvoice(c, out, sub) ==
    IF sub.at # "return" THEN [c EXCEPT !.sub = sub]
    ELSE IF sub.result.raised THEN Raise(c, sub.result.value)
    ELSE Listed([c EXCEPT !.sub = NoSub], out, sub.result.value)

\* the loops over self.G.successors(c.node) and self.G.predecessors(c.node)
\* that keep the nodes of type invoice: the call that makes the iterator
\* (NetworkXError for a node that is not in the graph), next(), and
\* self.G.nodes[n].get("type") (KeyError); get_vendor_invoices then calls
\* self.get_invoice(n). At "counted" when both loops are over.
neighbours_step(c) ==
    LET out == c.at \in {"successors", "succ_next", "succ_node", "succ_call"}
    IN  IF c.at \in {"successors", "predecessors"}
        THEN IF ~HasNode(G_node, c.node) THEN Raise(c, "NetworkXError")
             ELSE LET nbrs == IF out THEN successors(c.node) ELSE predecessors(c.node)
                  IN  [c EXCEPT !.nit = [node |-> c.node,
                                         dir |-> IF out THEN "succ" ELSE "pred",
                                         used |-> Len(nbrs), pos |-> 0,
                                         live |-> TRUE, items |-> <<>>],
                                !.at = IF out THEN "succ_next" ELSE "pred_next"]
        ELSE IF c.at \in {"succ_next", "pred_next"}
        THEN LET next == dict_next(c.nit.used, c.nit.pos, NbrsOf(c.nit))
             IN  IF next.kind = "RuntimeError" THEN Raise(c, "RuntimeError")
                 ELSE IF next.kind = "StopIteration"
                 THEN [c EXCEPT !.nit = NoNbrs, !.n = "",
                                !.at = IF out THEN "predecessors" ELSE "counted"]
                 ELSE [c EXCEPT !.nit.pos = @ + 1, !.n = next.item,
                                !.at = IF out THEN "succ_node" ELSE "pred_node"]
        ELSE IF c.at \in {"succ_node", "pred_node"}
        THEN IF ~HasNode(G_node, c.n) THEN Raise(c, "KeyError")
             ELSE IF NodeType(c.n) # "invoice"
             THEN [c EXCEPT !.at = IF out THEN "succ_next" ELSE "pred_next"]
             ELSE IF c.method = "get_vendor_invoices"
             THEN [c EXCEPT !.sub = SubCall("get_invoice", c.n),
                            !.at = IF out THEN "succ_call" ELSE "pred_call"]
             ELSE Listed(c, out, c.n)
        ELSE ListedInvoice(c, out, get_invoice_step(c.sub))

\* get_vendor and get_all_vendors after an access of their list
\* comprehensions: attrs.get("name", "") is next when both are over
VendorCounted(d) == IF d.at = "counted" THEN [d EXCEPT !.at = "name"] ELSE d

\* NetworkXAdapter.get_vendor: gstin in self.G, self.G.nodes[gstin] for the
\* type, attrs = self.G.nodes[gstin], the two list comprehensions, and the
\* two attrs.get(...) of the dict
get_vendor_step(c) ==
    IF c.at = "contains"
    THEN IF HasNode(G_node, c.arg) THEN [c EXCEPT !.at = "type"] ELSE Ret(c, None)
    ELSE IF c.at = "type"
    THEN IF ~HasNode(G_node, c.arg) THEN Raise(c, "KeyError")
         ELSE IF NodeType(c.arg) = "vendor" THEN [c EXCEPT !.at = "attrs"]
         ELSE Ret(c, None)
    ELSE IF c.at = "attrs"
    THEN IF ~HasNode(G_node, c.arg) THEN Raise(c, "KeyError")
         ELSE [c EXCEPT !.attrs = Ref(c.arg), !.at = "successors"]
    ELSE IF c.at = "name" THEN [Read(c, "name", "") EXCEPT !.at = "missed_filings"]
    ELSE IF c.at = "missed_filings"
    THEN Ret(c, VendorDictOf(c.arg, Read(c, "missed_filings", 0).got,
                             Len(c.sold), Len(c.purchased)))
    ELSE VendorCounted(neighbours_step(c))

\* NetworkXAdapter.get_all_vendors: the loop over self.G.nodes(data=True)
\* and, for a node of type vendor, the two list comprehensions and the two
\* attrs.get(...) of vendors.append
get_all_vendors_step(c) ==
    IF c.at = "iter" THEN [c EXCEPT !.it = NodeIter, !.at = "next"]
    ELSE IF c.at = "next"
    THEN LET next == dict_next(c.it.used, c.it.pos, G_node)
         IN  IF next.kind = "RuntimeError" THEN Raise(c, "RuntimeError")
             ELSE IF next.kind = "StopIteration" THEN Ret(c, c.seen)
             ELSE IF Get(next.item.attrs, "type", "None") # "vendor"
             THEN [c EXCEPT !.it.pos = @ + 1]
             ELSE [c EXCEPT !.it.pos = @ + 1, !.node = next.item.id,
                            !.attrs = Ref(next.item.id), !.sold = <<>>,
                            !.purchased = <<>>, !.at = "successors"]
    ELSE IF c.at = "name" THEN [Read(c, "name", "") EXCEPT !.at = "missed_filings"]
    ELSE IF c.at = "missed_filings"
    THEN [Dropped(c) EXCEPT
             !.seen = Append(@, VendorDictOf(c.node, Read(c, "missed_filings", 0).got,
                                             Len(c.sold), Len(c.purchased))),
             !.sold = <<>>, !.purchased = <<>>]
    ELSE VendorCounted(neighbours_step(c))

\* NetworkXAdapter.get_vendor_invoices
VendorInvoicesReturned(d) ==
    IF d.at = "counted" THEN Ret(d, [sold |-> d.sold, purchased |-> d.purchased])
    ELSE d

get_vendor_invoices_step(c) == VendorInvoicesReturned(neighbours_step(c))

\* get_mismatched_invoices after an access of its call self.get_invoice(node):
\* mismatches.append(...) when the call has returned
MismatchListed(c, sub) ==
    IF sub.at # "return" THEN [c EXCEPT !.sub = sub]
    ELSE IF sub.result.raised THEN Raise(c, sub.result.value)
    ELSE [c EXCEPT !.sub = NoSub, !.seen = Append(@, sub.result.value), !.node = "",
                   !.at = "next"]

\* NetworkXAdapter.get_mismatched_invoices: the loop over
\* self.G.nodes(data=True), the two attrs.get(...) of an invoice node,
\* self.get_invoice(node) for a mismatched one, and the sort, whose key
\* raises AttributeError for a None
get_mismatched_invoices_step(c) ==
    IF c.at = "iter" THEN [c EXCEPT !.it = NodeIter, !.at = "next"]
    ELSE IF c.at = "next"
    THEN LET next == dict_next(c.it.used, c.it.pos, G_node)
         IN  IF next.kind = "RuntimeError" THEN Raise(c, "RuntimeError")
             ELSE IF next.kind = "StopIteration"
             THEN IF \E i \in 1..Len(c.seen) : c.seen[i] = None
                  THEN Raise(c, "AttributeError")
                  ELSE Ret(c, SortByTaxDesc(c.seen))
             ELSE IF Get(next.item.attrs, "type", "None") # "invoice"
             THEN [c EXCEPT !.it.pos = @ + 1]
             ELSE [c EXCEPT !.it.pos = @ + 1, !.node = next.item.id,
                            !.attrs = Ref(next.item.id), !.at = "reported_by_seller"]
    ELSE IF c.at = "reported_by_seller"
    THEN [Read(c, "reported_by_seller", FALSE) EXCEPT !.at = "claimed_by_buyer"]
    ELSE IF c.at = "claimed_by_buyer"
    THEN IF c.got.reported_by_seller # Get(Deref(c.attrs), "claimed_by_buyer", FALSE)
         THEN [c EXCEPT !.attrs = NoRef, !.got = EmptyDict, !.at = "call",
                        !.sub = SubCall("get_invoice", c.node)]
         ELSE Dropped(c)
    ELSE MismatchListed(c, get_invoice_step(c.sub))

\* the graph objects a call of the adapter refers to: self.G, and the
\* vendor_graph of the call
Graphs(c) == [G |-> DiGraph(G_node, G_edges), vendor_graph |-> c.vendor_graph]

\* graph.add_edge(u, v) on the graph object `name`
graph_add_edge(graphs, name, u, v) ==
    [graphs EXCEPT ![name] = DiGraph(add_edge_nodes(@.nodes, u, v),
                                     add_edge(@.edges, u, v, ""))]

\* a detection that adds its edges to the graph of the store
vendor_graph_add_edge_in_store(graphs, seller, buyer) ==
    graph_add_edge(graphs, "G", seller, buyer)

\* detect_circular_trading: vendor_graph.add_edge(seller, buyer)
vendor_graph_add_edge(graphs, seller, buyer) ==
    graph_add_edge(graphs, "vendor_graph", seller, buyer)

\* the graph objects after the access the call is at. The reads of the
\* adapter call a mutator of a graph in one place: detect_circular_trading,
\* after buyer = attrs.get("buyer_gstin"), calls vendor_graph.add_edge when
\* seller and buyer are non-empty and differ
Written(c) ==
    IF c.method = "detect_circular_trading" /\ c.at = "buyer_gstin"
    THEN LET seller == c.got.seller_gstin
             buyer == Get(Deref(c.attrs), "buyer_gstin", "")
         IN  IF seller # "" /\ buyer # "" /\ seller # buyer
             THEN vendor_graph_add_edge(Graphs(c), seller, buyer)
             ELSE Graphs(c)
    ELSE Graphs(c)

\* the cycles of nx.simple_cycles(vendor_graph) that detect_circular_trading
\* keeps
cycles_of(vendor_graph, max_depth) ==
    {cycle \in simple_cycles(
                   {<<vendor_graph.edges[i].u, vendor_graph.edges[i].v>> :
                       i \in 1..Len(vendor_graph.edges)},
                   [i \in 1..Len(vendor_graph.nodes) |-> vendor_graph.nodes[i].id]) :
        2 <= Len(cycle) /\ Len(cycle) <= max_depth}

\* NetworkXAdapter.detect_circular_trading: the loop over
\* self.G.nodes(data=True), the two attrs.get(...) of an invoice node and the
\* edge added to vendor_graph, then the cycles of vendor_graph
detect_circular_trading_step(c) ==
    IF c.at = "iter" THEN [c EXCEPT !.it = NodeIter, !.at = "next"]
    ELSE IF c.at = "next"
    THEN LET next == dict_next(c.it.used, c.it.pos, G_node)
         IN  IF next.kind = "RuntimeError" THEN Raise(c, "RuntimeError")
             ELSE IF next.kind = "StopIteration"
             THEN Ret(c, cycles_of(c.vendor_graph, DEFAULT_MAX_DEPTH))
             ELSE IF Get(next.item.attrs, "type", "None") # "invoice"
             THEN [c EXCEPT !.it.pos = @ + 1]
             ELSE [c EXCEPT !.it.pos = @ + 1, !.node = next.item.id,
                            !.attrs = Ref(next.item.id), !.at = "seller_gstin"]
    ELSE IF c.at = "seller_gstin"
    THEN [Read(c, "seller_gstin", "") EXCEPT !.at = "buyer_gstin"]
    ELSE [Dropped(c) EXCEPT !.vendor_graph = Written(c).vendor_graph]

\* get_invoice_trail after an access of the call it is in: sub is the frame
\* of that call
TrailAfter(c, sub) ==
    IF sub.at # "return" THEN [c EXCEPT !.sub = sub]
    ELSE IF sub.result.raised THEN Raise(c, sub.result.value)
    ELSE IF c.at = "get_invoice"
    THEN IF sub.result.value = None THEN Ret(c, EmptyDict)
         ELSE [c EXCEPT !.inv = sub.result.value, !.at = "seller",
                        !.sub = SubCall("get_vendor", sub.result.value.seller_gstin)]
    ELSE IF c.at = "seller"
    THEN [c EXCEPT !.seller = sub.result.value, !.at = "buyer",
                   !.sub = SubCall("get_vendor", c.inv.buyer_gstin)]
    ELSE Ret(c, invoice_trail_of(c.arg, c.inv, c.seller, sub.result.value))

\* NetworkXAdapter.get_invoice_trail: self.get_invoice(invoice_id), then
\* self.get_vendor of the seller and of the buyer
get_invoice_trail_step(c) ==
    TrailAfter(c, IF c.sub.method = "get_invoice" THEN get_invoice_step(c.sub)
                  ELSE get_vendor_step(c.sub))

\* get_graph_summary after the condition of a list comprehension has been
\* decided for a node
SummaryCounted(c, holds) == [Dropped(c) EXCEPT !.count = @ + IF holds THEN 1 ELSE 0]

\* NetworkXAdapter.get_graph_summary: four list comprehensions over
\* self.G.nodes(data=True), one after the other; the third reads
\* reported_by_seller and then claimed_by_buyer of an invoice node, the
\* fourth claimed_by_buyer and, when that is true, reported_by_seller
get_graph_summary_step(c) ==
    IF c.at = "iter" THEN [c EXCEPT !.it = NodeIter, !.at = "next"]
    ELSE IF c.at = "next"
    THEN LET next == dict_next(c.it.used, c.it.pos, G_node)
         IN  IF next.kind = "RuntimeError" THEN Raise(c, "RuntimeError")
             ELSE IF next.kind = "item"
             THEN LET type == Get(next.item.attrs, "type", "None")
                  IN  IF c.k = 1
                      THEN [c EXCEPT !.it.pos = @ + 1,
                                     !.count = @ + IF type = "vendor" THEN 1 ELSE 0]
                      ELSE IF type # "invoice" THEN [c EXCEPT !.it.pos = @ + 1]
                      ELSE IF c.k = 2 THEN [c EXCEPT !.it.pos = @ + 1, !.count = @ + 1]
                      ELSE [c EXCEPT !.it.pos = @ + 1, !.attrs = Ref(next.item.id),
                                     !.at = IF c.k = 3 THEN "reported_by_seller"
                                            ELSE "claimed_by_buyer"]
             ELSE IF c.k < 4
             THEN [c EXCEPT !.seen = Append(@, c.count), !.count = 0, !.k = @ + 1,
                            !.it = NoIter, !.at = "iter"]
             ELSE Ret(c, [vendor_count |-> c.seen[1], invoice_count |-> c.seen[2],
                          mismatch_count |-> c.seen[3], suspicious_count |-> c.count])
    ELSE IF c.k = 3
    THEN IF c.at = "reported_by_seller"
         THEN [Read(c, "reported_by_seller", FALSE) EXCEPT !.at = "claimed_by_buyer"]
         ELSE SummaryCounted(c, c.got.reported_by_seller
                                  # Get(Deref(c.attrs), "claimed_by_buyer", FALSE))
    ELSE IF c.at = "claimed_by_buyer"
    THEN IF Get(Deref(c.attrs), "claimed_by_buyer", FALSE)
         THEN [c EXCEPT !.at = "reported_by_seller"]
         ELSE SummaryCounted(c, FALSE)
    ELSE SummaryCounted(c, ~Get(Deref(c.attrs), "reported_by_seller", FALSE))

\* the keys that get_graph_data reads from the attrs of an invoice node, in
\* the order of its dict display
GraphDataKeys ==
    <<"amount", "tax", "seller_gstin", "buyer_gstin", "reported_by_seller",
      "claimed_by_buyer", "is_suspicious">>

\* get_graph_data: nodes.append(nd)
NodeAppended(c) == [Dropped(c) EXCEPT !.seen = Append(@, [id |-> c.node] @@ c.got)]

\* NetworkXAdapter.get_graph_data: the loop over self.G.nodes(data=True),
\* where nd takes attrs.get("type", "unknown"), attrs.get("type") is read
\* again for the test of "vendor" and again for the test of "invoice", and
\* every field of nd.update(...) is one attrs.get(...); is_suspicious reads
\* claimed_by_buyer and, when it is true, reported_by_seller. Then the loop
\* over self.G.edges(), which goes through the adjacency dict of every node
get_graph_data_step(c) ==
    IF c.at = "iter" THEN [c EXCEPT !.it = NodeIter, !.at = "next"]
    ELSE IF c.at = "next"
    THEN LET next == dict_next(c.it.used, c.it.pos, G_node)
         IN  IF next.kind = "RuntimeError" THEN Raise(c, "RuntimeError")
             ELSE IF next.kind = "StopIteration"
             THEN [c EXCEPT !.it = NoIter, !.at = "edges_iter"]
             ELSE [c EXCEPT !.it.pos = @ + 1, !.node = next.item.id,
                            !.attrs = Ref(next.item.id),
                            !.got = "type" :> Get(next.item.attrs, "type", "unknown"),
                            !.at = "is_vendor"]
    ELSE IF c.at = "is_vendor"
    THEN [c EXCEPT !.at = IF Get(Deref(c.attrs), "type", "None") = "vendor"
                          THEN "name" ELSE "is_invoice"]
    ELSE IF c.at = "is_invoice"
    THEN IF Get(Deref(c.attrs), "type", "None") = "invoice"
         THEN [c EXCEPT !.at = "amount"]
         ELSE NodeAppended(c)
    ELSE IF c.at = "name" THEN [Read(c, "name", "") EXCEPT !.at = "missed_filings"]
    ELSE IF c.at = "missed_filings" THEN NodeAppended(Read(c, "missed_filings", 0))
    ELSE IF c.at = "is_suspicious"
    THEN IF Get(Deref(c.attrs), "claimed_by_buyer", FALSE)
         THEN [c EXCEPT !.at = "not_reported_by_seller"]
         ELSE NodeAppended([c EXCEPT !.got = ("is_suspicious" :> FALSE) @@ @])
    ELSE IF c.at = "not_reported_by_seller"
    THEN NodeAppended([c EXCEPT !.got =
             ("is_suspicious" :> ~Get(Deref(c.attrs), "reported_by_seller", FALSE)) @@ @])
    ELSE IF c.at \in {GraphDataKeys[i] : i \in 1..Len(GraphDataKeys)}
    THEN [Read(c, c.at, InvoiceDefault(c.at)) EXCEPT !.at = NextKey(GraphDataKeys, c.at)]
    ELSE IF c.at = "edges_iter" THEN [c EXCEPT !.it = NodeIter, !.at = "edges_next"]
    ELSE IF c.at = "edges_next"
    THEN LET next == dict_next(c.it.used, c.it.pos, G_node)
         IN  IF next.kind = "RuntimeError" THEN Raise(c, "RuntimeError")
             ELSE IF next.kind = "StopIteration"
             THEN Ret(c, [nodes |-> c.seen, edges |-> c.sold])
             ELSE [c EXCEPT !.it.pos = @ + 1, !.at = "nbrs_iter",
                            !.nit = [node |-> next.item.id, dir |-> "succ", used |-> 0,
                                     pos |-> 0, live |-> TRUE, items |-> <<>>]]
    ELSE IF c.at = "nbrs_iter"
    THEN [c EXCEPT !.nit.used = Len(NbrsOf(c.nit)), !.at = "nbrs_next"]
    ELSE LET next == dict_next(c.nit.used, c.nit.pos, NbrsOf(c.nit))
         IN  IF next.kind = "RuntimeError" THEN Raise(c, "RuntimeError")
             ELSE IF next.kind = "StopIteration"
             THEN [c EXCEPT !.nit = NoNbrs, !.at = "edges_next"]
             ELSE [c EXCEPT !.nit.pos = @ + 1,
                            !.sold = Append(@, [source |-> c.nit.node,
                                                target |-> next.item])]

\* the next access of a call of the adapter
adapter_step(c) ==
    IF c.method = "get_vendor" THEN get_vendor_step(c)
    ELSE IF c.method = "get_invoice" THEN get_invoice_step(c)
    ELSE IF c.method = "get_all_vendors" THEN get_all_vendors_step(c)
    ELSE IF c.method = "get_vendor_invoices" THEN get_vendor_invoices_step(c)
    ELSE IF c.method = "get_mismatched_invoices" THEN get_mismatched_invoices_step(c)
    ELSE IF c.method = "detect_circular_trading" THEN detect_circular_trading_step(c)
    ELSE IF c.method = "get_invoice_trail" THEN get_invoice_trail_step(c)
    ELSE IF c.method = "get_graph_summary" THEN get_graph_summary_step(c)
    ELSE get_graph_data_step(c)

\* what self.G.clear() does to the dicts a call holds: the adjacency dicts
\* and the attribute dicts are dropped from the graph as they are
DetachedCall(c) ==
    [c EXCEPT !.nit = IF c.nit.live
                      THEN [c.nit EXCEPT !.live = FALSE, !.items = NbrsOf(c.nit)]
                      ELSE c.nit,
              !.attrs = IF c.attrs.live
                        THEN [c.attrs EXCEPT !.live = FALSE, !.snap = NodeAttrs(c.attrs.node)]
                        ELSE c.attrs]

\* the frame of a thread after another thread's self.G.clear()
Detached(f) ==
    IF "call" \notin DOMAIN f THEN f
    ELSE LET c == DetachedCall(f.call)
         IN  [f EXCEPT !.call = IF c.sub = NoSub THEN c
                                 ELSE [c EXCEPT !.sub = DetachedCall(c.sub)]]

(***************************************************************************)
(* The writes, as the threads call them                                    *)
(***************************************************************************)
\* a thread makes one more call
Admits(t) == inflight[t] = Idle /\ ops < MaxCalls

\* adapter.clear(): the dicts the other thread holds are dropped from the
\* graph
CallClear(t) ==
    /\ Admits(t)
    /\ clear
    /\ inflight' = [u \in Threads |-> Detached(inflight[u])]
    /\ last' = [Did("clear", "") EXCEPT !.removed = Len(G_node)]
    /\ ops' = ops + 1
    /\ UNCHANGED <<hist, pending, neo4j>>

\* adapter.upsert_vendor(...)
CallUpsertVendor(t) ==
    /\ Admits(t)
    /\ \E row \in WriteVendorRows :
          /\ upsert_vendor(row.gstin, row.name, row.missed_filings)
          /\ last' = Did("upsert_vendor", row.gstin)
    /\ ops' = ops + 1
    /\ UNCHANGED <<hist, pending, inflight, neo4j>>

\* adapter.upsert_invoice(...): the call is entered and self.G.add_node runs
CallUpsertInvoice(t) ==
    /\ Admits(t)
    /\ \E row \in WriteInvoiceRows :
          /\ upsert_invoice_add_node(row.invoice_id, row.seller_gstin, row.buyer_gstin,
                                     row.amount, row.tax, row.reported_by_seller,
                                     row.claimed_by_buyer)
          /\ inflight' = [inflight EXCEPT ![t] =
                 [function |-> "upsert_invoice", at |-> "add_edge_sold", row |-> row]]
          /\ last' = Did("add_node", row.invoice_id)
    /\ ops' = ops + 1
    /\ UNCHANGED <<hist, pending, neo4j>>

\* upsert_invoice adds the SOLD edge
UpsertInvoiceAddSoldEdge(t) ==
    /\ inflight[t].at = "add_edge_sold"
    /\ upsert_invoice_add_sold_edge(inflight[t].row.invoice_id, inflight[t].row.seller_gstin)
    /\ inflight' = [inflight EXCEPT ![t].at = "add_edge_purchased"]
    /\ last' = Did("add_edge", inflight[t].row.invoice_id)
    /\ UNCHANGED <<hist, ops, pending, neo4j>>

\* upsert_invoice adds the PURCHASED_BY edge and returns
UpsertInvoiceAddPurchasedEdge(t) ==
    /\ inflight[t].at = "add_edge_purchased"
    /\ upsert_invoice_add_purchased_edge(inflight[t].row.invoice_id,
                                         inflight[t].row.buyer_gstin)
    /\ inflight' = [inflight EXCEPT ![t] = Idle]
    /\ last' = Did("upsert_invoice", inflight[t].row.invoice_id)
    /\ UNCHANGED <<hist, ops, pending, neo4j>>

(***************************************************************************)
(* The reads, as the threads call them: a method of the adapter, or an     *)
(* engine function that is given the adapter. The locals of the function   *)
(* the thread called are kept in its frame: call (the call of the adapter  *)
(* in progress), within (the engine functions the call was made from),     *)
(* first (the result of its first call), circ (circular_gstins), todo      *)
(* (what its loop has yet to score), acc (the scores so far) and sv (the   *)
(* locals of score_vendor). The value of at names the statement the call   *)
(* in progress belongs to.                                                 *)
(***************************************************************************)
ScoreVendorEntry == [at |-> "get_vendor"]

\* a call of the adapter is made from the named engine functions
Calls(f, at, within, method, arg) ==
    [f EXCEPT !.at = at, !.within = within, !.call = EnterCall(method, arg)]

\* the function returns or raises
Answers(f, answer) == [f EXCEPT !.at = "done", !.call = NoSub, !.answer = answer]

\* inv.get(...) in a loop over a list that holds a None raises AttributeError
HoldsNone(invs) == \E i \in 1..Len(invs) : invs[i] = None

\* score_vendor(adapter, gstin, circular_gstins) after the call sv.at of the
\* adapter has returned v: the call it makes next, or what it returns
score_vendor_after(gstin, circular_gstins, sv, v) ==
    IF sv.at = "get_vendor"
    THEN IF v = None THEN [at |-> "return", result |-> Returned(NoVendorScore)]
         ELSE [at |-> "get_vendor_invoices", vendor |-> v]
    ELSE IF sv.at = "get_vendor_invoices"
    THEN IF HoldsNone(v.purchased)
         THEN [at |-> "return", result |-> Raised("AttributeError")]
         ELSE [at |-> "get_all_vendors", vendor |-> sv.vendor, vendor_invoices |-> v]
    ELSE IF HoldsNone(sv.vendor_invoices.sold)
    THEN [at |-> "return", result |-> Raised("AttributeError")]
    ELSE [at |-> "return",
          result |-> Returned(score_vendor_with(gstin, circular_gstins, sv.vendor,
                                                sv.vendor_invoices, v))]

\* score_vendor after a call of the adapter has returned v
score_vendor_next(f, v) ==
    LET sv == score_vendor_after(f.arg, f.circ, f.sv, v)
    IN  IF sv.at # "return"
        THEN [Calls(f, "score_vendor", {"score_vendor"}, sv.at,
                    IF sv.at = "get_all_vendors" THEN "" ELSE f.arg)
                 EXCEPT !.sv = sv]
        ELSE Answers(f, sv.result)

\* reconcile_all_invoices: the loop over the mismatches, up to the call
\* score_invoice makes for the seller of an invoice that names one
RECURSIVE reconcile_loop(_)
reconcile_loop(f) ==
    IF f.todo = <<>> THEN Answers(f, Returned(SortByRiskDesc(f.acc)))
    ELSE IF Get(Head(f.todo), "seller_gstin", "") # ""
    THEN Calls(f, "score_invoice", {"score_invoice", "reconcile_all_invoices"},
               "get_vendor", Head(f.todo).seller_gstin)
    ELSE reconcile_loop([f EXCEPT
             !.todo = Tail(f.todo),
             !.acc = Append(f.acc, ReconcileEntryWith(
                         Head(f.todo), score_invoice_with(Head(f.todo), f.circ, None)))])

\* reconcile_all_invoices(adapter) after a call of the adapter has returned v
reconcile_all_invoices_next(f, v) ==
    IF f.at = "get_mismatched_invoices"
    THEN Calls([f EXCEPT !.todo = v], "detect_circular_trading",
               {"reconcile_all_invoices"}, "detect_circular_trading", "")
    ELSE IF f.at = "detect_circular_trading"
    THEN reconcile_loop([f EXCEPT !.circ = v])
    ELSE reconcile_loop([f EXCEPT
             !.todo = Tail(f.todo),
             !.acc = Append(f.acc, ReconcileEntryWith(
                         Head(f.todo), score_invoice_with(Head(f.todo), f.circ, v)))])

\* get_invoice_audit_trail(adapter, invoice_id) after a call of the adapter
\* has returned v; {} when there is no trail
get_invoice_audit_trail_next(f, v) ==
    IF f.at = "get_invoice_trail"
    THEN IF v = EmptyDict THEN Answers(f, Returned(EmptyDict))
         ELSE Calls([f EXCEPT !.first = v], "detect_circular_trading",
                    {"get_invoice_audit_trail"}, "detect_circular_trading", "")
    ELSE IF f.at = "detect_circular_trading"
    THEN IF Get(f.first, "seller_gstin", "") # ""
         THEN Calls([f EXCEPT !.circ = v], "score_invoice",
                    {"score_invoice", "get_invoice_audit_trail"},
                    "get_vendor", f.first.seller_gstin)
         ELSE Answers(f, Returned(get_invoice_audit_trail_with(f.arg, f.first, v, None)))
    ELSE Answers(f, Returned(get_invoice_audit_trail_with(f.arg, f.first, f.circ, v)))

\* the frame of a function at its first call of the adapter
ReadFrame(function, arg, circ) ==
    LET f == [function |-> function, arg |-> arg, at |-> "", within |-> {},
              first |-> None, circ |-> circ, todo |-> <<>>, acc |-> <<>>,
              sv |-> ScoreVendorEntry, call |-> NoSub, answer |-> None]
    IN  IF function = "score_vendor"
        THEN Calls(f, "score_vendor", {"score_vendor"}, "get_vendor", arg)
        ELSE IF function = "reconcile_all_invoices"
        THEN Calls(f, "get_mismatched_invoices", {"reconcile_all_invoices"},
                   "get_mismatched_invoices", "")
        ELSE IF function = "get_invoice_audit_trail"
        THEN Calls(f, "get_invoice_trail", {"get_invoice_audit_trail"},
                   "get_invoice_trail", arg)
        ELSE Calls(f, function, {}, function, arg)

\* one access of the call in progress
read_step(f) == [f EXCEPT !.call = adapter_step(f.call)]

\* the call of the frame is made in the try block of an engine
InTry(g) == g.call.method = "detect_circular_trading" /\ g.within # {}

\* what the call of the frame has returned; the engines turn the outcome of
\* detect_circular_trading into circular_gstins
Value(g) ==
    IF InTry(g) THEN circular_gstins_of(g.call.result) ELSE g.call.result.value

\* the function after a step: when the call in progress has returned, the
\* function goes on to its next call or returns (next), and an exception of
\* the adapter that is not caught ends it
Continue(g, next) ==
    IF g.call.at # "return" THEN g
    ELSE IF ~InTry(g) /\ g.call.result.raised THEN Answers(g, g.call.result)
    ELSE next

\* the frames a thread may run the function on: a new call when it is idle,
\* its own frame when it is in the function
Entering(t, function, args, circs) ==
    IF inflight[t] = Idle
    THEN IF ops < MaxCalls
         THEN {ReadFrame(function, arg, circ) : arg \in args, circ \in circs}
         ELSE {}
    ELSE IF inflight[t].function = function THEN {inflight[t]} ELSE {}

\* a step of a read: f is the frame before the step, g after it; the graph
\* of the store is what the access leaves of it
Serve(t, f, g) ==
    /\ G_node' = Written(f.call).G.nodes
    /\ G_edges' = Written(f.call).G.edges
    /\ inflight' = [inflight EXCEPT ![t] = IF g.at = "done" THEN Idle ELSE g]
    /\ last' = [Did(f.call.method, f.arg) EXCEPT
                   !.within = f.within,
                   !.before = [nodes |-> G_node, edges |-> G_edges],
                   !.answer = IF g.at = "done" THEN g.answer ELSE NoObservation]
    /\ ops' = IF inflight[t] = Idle THEN ops + 1 ELSE ops
    /\ UNCHANGED <<hist, pending, neo4j>>

\* a method of the adapter called by the thread returns what the call
\* returns
Returns(g) == Answers(g, Returned(Value(g)))

CallGetVendor(t) ==
    \E f \in Entering(t, "get_vendor", ReadGstinArgs, {{}}) :
        \E g \in {read_step(f)} : Serve(t, f, Continue(g, Returns(g)))

CallGetInvoice(t) ==
    \E f \in Entering(t, "get_invoice", ReadInvoiceArgs, {{}}) :
        \E g \in {read_step(f)} : Serve(t, f, Continue(g, Returns(g)))

CallGetVendorInvoices(t) ==
    \E f \in Entering(t, "get_vendor_invoices", ReadGstinArgs, {{}}) :
        \E g \in {read_step(f)} : Serve(t, f, Continue(g, Returns(g)))

CallGetMismatchedInvoices(t) ==
    \E f \in Entering(t, "get_mismatched_invoices", {""}, {{}}) :
        \E g \in {read_step(f)} : Serve(t, f, Continue(g, Returns(g)))

CallDetectCircularTrading(t) ==
    \E f \in Entering(t, "detect_circular_trading", {""}, {{}}) :
        \E g \in {read_step(f)} : Serve(t, f, Continue(g, Returns(g)))

CallGetGraphSummary(t) ==
    \E f \in Entering(t, "get_graph_summary", {""}, {{}}) :
        \E g \in {read_step(f)} : Serve(t, f, Continue(g, Returns(g)))

CallGetGraphData(t) ==
    \E f \in Entering(t, "get_graph_data", {""}, {{}}) :
        \E g \in {read_step(f)} : Serve(t, f, Continue(g, Returns(g)))

CallScoreVendor(t) ==
    \E f \in Entering(t, "score_vendor", ReadGstinArgs, ReadCircularArgs) :
        \E g \in {read_step(f)} :
            Serve(t, f, Continue(g, score_vendor_next(g, Value(g))))

CallReconcileAllInvoices(t) ==
    \E f \in Entering(t, "reconcile_all_invoices", {""}, {{}}) :
        \E g \in {read_step(f)} :
            Serve(t, f, Continue(g, reconcile_all_invoices_next(g, Value(g))))

CallGetInvoiceAuditTrail(t) ==
    \E f \in Entering(t, "get_invoice_audit_trail", ReadInvoiceArgs, {{}}) :
        \E g \in {read_step(f)} :
            Serve(t, f, Continue(g, get_invoice_audit_trail_next(g, Value(g))))

NextThreads ==
    \/ \E t \in Threads : CallClear(t)
    \/ \E t \in Threads : CallUpsertVendor(t)
    \/ \E t \in Threads : CallUpsertInvoice(t)
    \/ \E t \in Threads : UpsertInvoiceAddSoldEdge(t)
    \/ \E t \in Threads : UpsertInvoiceAddPurchasedEdge(t)
    \/ \E t \in Threads : CallGetVendor(t)
    \/ \E t \in Threads : CallGetInvoice(t)
    \/ \E t \in Threads : CallGetVendorInvoices(t)
    \/ \E t \in Threads : CallGetMismatchedInvoices(t)
    \/ \E t \in Threads : CallDetectCircularTrading(t)
    \/ \E t \in Threads : CallGetGraphSummary(t)
    \/ \E t \in Threads : CallGetGraphData(t)
    \/ \E t \in Threads : CallScoreVendor(t)
    \/ \E t \in Threads : CallReconcileAllInvoices(t)
    \/ \E t \in Threads : CallGetInvoiceAuditTrail(t)

\* the adapter has just been made; no thread is in a call
SpecThreads == Init /\ [][NextThreads]_vars

(***************************************************************************)
(* The in-memory backend and the Neo4j backend side by side: each call of  *)
(* the adapter interface is made on both.                                  *)
(***************************************************************************)
\* the two stores
BackendStores == [nodes |-> G_node, edges |-> G_edges, neo4j |-> neo4j]

BackendsUpsertVendor ==
    /\ ops < MaxBackendOps
    /\ \E gstin \in Gstins, name \in RowNames, missed_filings \in BackendMissedInputs :
          /\ upsert_vendor(gstin, name, missed_filings)
          /\ neo4j' = Neo4j_upsert_vendor(neo4j, gstin, name, missed_filings)
          /\ hist' = [hist EXCEPT ![gstin].latest = "vendor",
                                  ![gstin].vendor = VendorCall(name, missed_filings)]
          /\ last' = [NoOp EXCEPT !.op = "upsert_vendor", !.key = gstin]
    /\ ops' = ops + 1
    /\ UNCHANGED <<pending, inflight>>

BackendsUpsertInvoice ==
    /\ ops < MaxBackendOps
    /\ \E invoice_id \in BackendInvoiceIds, seller_gstin \in Gstins,
          buyer_gstin \in Gstins, amount \in AmountInputs, tax \in CycleTaxInputs,
          reported_by_seller \in BOOLEAN, claimed_by_buyer \in BOOLEAN :
          /\ upsert_invoice(invoice_id, seller_gstin, buyer_gstin, amount, tax,
                            reported_by_seller, claimed_by_buyer)
          /\ neo4j' = Neo4j_upsert_invoice(neo4j, invoice_id, seller_gstin, buyer_gstin,
                                           amount, tax, reported_by_seller,
                                           claimed_by_buyer)
          /\ hist' = [hist EXCEPT ![invoice_id].latest = "invoice",
                                  ![invoice_id].invoice =
                                      InvoiceCall(seller_gstin, buyer_gstin, amount, tax,
                                                  reported_by_seller, claimed_by_buyer)]
          /\ last' = [NoOp EXCEPT !.op = "upsert_invoice", !.key = invoice_id]
    /\ ops' = ops + 1
    /\ UNCHANGED <<pending, inflight>>

BackendsClear ==
    /\ ops < MaxBackendOps
    /\ clear
    /\ neo4j' = Neo4j_clear(neo4j)
    /\ hist' = NoHistory
    /\ last' = [NoOp EXCEPT !.op = "clear", !.removed = Len(G_node)]
    /\ ops' = ops + 1
    /\ UNCHANGED <<pending, inflight>>

\* adapter.create_constraints(), with the schema statements that fail
BackendsCreateConstraints ==
    /\ ops < MaxBackendOps
    /\ create_constraints
    /\ \E failing \in SUBSET CONSTRAINT_STATEMENTS :
          neo4j' = Neo4j_create_constraints(neo4j, failing)
    /\ last' = [NoOp EXCEPT !.op = "create_constraints", !.before = BackendStores]
    /\ ops' = ops + 1
    /\ UNCHANGED <<hist, pending, inflight>>

NextBackends ==
    \/ BackendsUpsertVendor
    \/ BackendsUpsertInvoice
    \/ BackendsClear
    \/ BackendsCreateConstraints

SpecBackends == Init /\ [][NextBackends]_vars

(***************************************************************************)
(* Properties of the store                                                 *)
(***************************************************************************)
\* C1: an upsert that repeats the previous upsert of its key with identical
\* fields leaves every read result unchanged (get_vendor, get_invoice,
\* get_vendor_invoices, get_mismatched_invoices, detect_circular_trading and
\* the get_graph_summary counts).
C1_UpsertIdempotent == last.repeat => Observable = last.before

\* a repeated upsert_invoice has run on a store that holds a vendor too
C1_Witness ==
    /\ last.repeat
    /\ last.op = "upsert_invoice"
    /\ get_graph_summary.vendor_count >= 1

\* C2: every key upserted as a vendor since the last clear() is returned by
\* get_vendor with the name and missed_filings of its last upsert_vendor, and
\* every key upserted as an invoice is returned by get_invoice with the
\* fields of its last upsert_invoice, whatever was upserted afterwards.
C2_EntitiesPersist ==
    \A k \in ReadKeys :
        /\ hist[k].vendor # NoCall =>
             /\ get_vendor(k) # None
             /\ get_vendor(k).name = hist[k].vendor.name
             /\ get_vendor(k).missed_filings = hist[k].vendor.missed_filings
        /\ hist[k].invoice # NoCall =>
             /\ get_invoice(k) # None
             /\ [f \in DOMAIN hist[k].invoice |-> get_invoice(k)[f]] = hist[k].invoice

\* the stored invoices: the keys get_invoice returns an invoice for
StoredInvoices == {k \in NodeIds : get_invoice(k) # None}
StoredVendors == {k \in NodeIds : get_vendor(k) # None}

EdgeSet == SeqToSet(G_edges)

\* C3: each stored invoice has exactly one incoming SOLD edge, from its
\* current seller_gstin, and exactly one outgoing PURCHASED_BY edge, to its
\* current buyer_gstin.
C3_OneSellerOneBuyerEdge ==
    \A n \in StoredInvoices :
        /\ {e \in EdgeSet : e.v = n /\ e.rel = "SOLD"} =
             {[u |-> get_invoice(n).seller_gstin, v |-> n, rel |-> "SOLD"]}
        /\ {e \in EdgeSet : e.u = n /\ e.rel = "PURCHASED_BY"} =
             {[u |-> n, v |-> get_invoice(n).buyer_gstin, rel |-> "PURCHASED_BY"]}

\* C4: for every vendor g, get_vendor_invoices(g).sold is exactly the stored
\* invoices whose seller_gstin is g, .purchased exactly those whose
\* buyer_gstin is g, and get_vendor(g).total_outgoing / total_incoming are
\* the sizes of those two sets.
C4_RelationshipsDerived ==
    \A g \in StoredVendors :
        LET sold == {get_invoice(n) : n \in {m \in StoredInvoices : get_invoice(m).seller_gstin = g}}
            purchased == {get_invoice(n) : n \in {m \in StoredInvoices : get_invoice(m).buyer_gstin = g}}
        IN  /\ get_vendor_invoices(g) # NetworkXError
            /\ SeqToSet(get_vendor_invoices(g).sold) = sold
            /\ SeqToSet(get_vendor_invoices(g).purchased) = purchased
            /\ get_vendor(g).total_outgoing = Cardinality(sold)
            /\ get_vendor(g).total_incoming = Cardinality(purchased)

\* C5: immediately after clear() the four summary counts are 0,
\* get_all_vendors and get_all_invoices are empty, get_vendor and get_invoice
\* return None for every key, get_graph_data has no nodes and no edges, and
\* detect_circular_trading returns no cycle.
C5_ClearRemovesEverything ==
    last.op = "clear" =>
        /\ get_graph_summary = [vendor_count |-> 0, invoice_count |-> 0,
                                mismatch_count |-> 0, suspicious_count |-> 0]
        /\ get_all_vendors = <<>>
        /\ get_all_invoices = <<>>
        /\ \A k \in ReadKeys : get_vendor(k) = None /\ get_invoice(k) = None
        /\ get_graph_data.nodes = <<>>
        /\ get_graph_data.edges = <<>>
        /\ detect_circular_trading(DEFAULT_MAX_DEPTH) = {}

\* clear() has just removed a store of at least three nodes
C5_Witness == last.op = "clear" /\ last.removed >= 3

\* C6: a read with a key that was never upserted returns an absence value and
\* does not raise: get_vendor and get_invoice return None, get_invoice_trail
\* returns the empty result, and get_vendor_invoices returns a result, with
\* empty lists when nothing refers to the key.
C6_AbsentReadsDoNotRaise ==
    \A k \in ReadKeys :
        hist[k].latest = "none" =>
            /\ get_vendor(k) = None
            /\ get_invoice(k) = None
            /\ get_invoice_trail(k) = EmptyDict
            /\ get_vendor_invoices(k) # NetworkXError
            /\ k \notin NodeIds =>
                 get_vendor_invoices(k) = [sold |-> <<>>, purchased |-> <<>>]

\* position of an invoice in node insertion order
InvoicePosition(id) ==
    CHOOSE i \in 1..Len(get_all_invoices) : get_all_invoices[i].invoice_id = id

\* C7: get_mismatched_invoices returns exactly the stored invoices with
\* reported_by_seller # claimed_by_buyer, each once, non-increasing in tax,
\* in an order fixed by the store: equal taxes in node insertion order.
C7_MismatchedExactSorted ==
    LET r == get_mismatched_invoices
    IN  /\ \A i, j \in 1..Len(r) : r[i].invoice_id = r[j].invoice_id => i = j
        /\ SeqToSet(r) =
             {get_invoice(n) : n \in {m \in StoredInvoices :
                 get_invoice(m).reported_by_seller # get_invoice(m).claimed_by_buyer}}
        /\ \A i \in 1..(Len(r) - 1) : r[i].tax >= r[i + 1].tax
        /\ \A i \in 1..(Len(r) - 1) :
             r[i].tax = r[i + 1].tax =>
                InvoicePosition(r[i].invoice_id) < InvoicePosition(r[i + 1].invoice_id)

\* two mismatched invoices, the one inserted first with the lower tax, so that
\* the sort has exchanged them
C7_Witness ==
    LET r == get_mismatched_invoices
    IN  /\ Len(r) = 2
        /\ r[1].tax > r[2].tax
        /\ InvoicePosition(r[1].invoice_id) > InvoicePosition(r[2].invoice_id)

(***************************************************************************)
(* Properties of circular-trading detection                                *)
(***************************************************************************)
\* the vendor projection as the interface states it: seller -> buyer iff some
\* stored invoice has that seller and that buyer, seller # buyer
ProjectionEdges ==
    {e \in {<<get_invoice(n).seller_gstin, get_invoice(n).buyer_gstin>> :
                n \in StoredInvoices} : e[1] # e[2]}

VerticesOf(E) == {e[1] : e \in E} \cup {e[2] : e \in E}

\* c visits no vendor twice and every step of it, the closing one included,
\* is an edge of E
IsElementaryCycle(E, c) ==
    /\ \A i, j \in 1..Len(c) : c[i] = c[j] => i = j
    /\ \A i \in 1..Len(c) : <<c[i], c[(i % Len(c)) + 1]>> \in E

IsRotation(c1, c2) ==
    /\ Len(c1) = Len(c2)
    /\ \E k \in 0..(Len(c1) - 1) :
          \A i \in 1..Len(c1) : c2[i] = c1[((i - 1 + k) % Len(c1)) + 1]

Min(a, b) == IF a < b THEN a ELSE b

\* every elementary cycle of E of between 2 and max_depth vendors, in every
\* rotation
ElementaryCycles(E, max_depth) ==
    UNION {{c \in [1..n -> VerticesOf(E)] : IsElementaryCycle(E, c)} :
              n \in 2..Min(max_depth, Cardinality(VerticesOf(E)))}

\* C8: detect_circular_trading(max_depth) returns exactly the elementary
\* cycles of the vendor projection with between 2 and max_depth vendors: every
\* returned cycle is one, no two returned cycles are rotations of each other,
\* and every such cycle is returned in some rotation.
C8_CyclesExact ==
    LET E == ProjectionEdges
    IN  \A max_depth \in 0..DEFAULT_MAX_DEPTH :
            LET R == detect_circular_trading(max_depth)
            IN  /\ \A c \in R : /\ IsElementaryCycle(E, c)
                                /\ 2 <= Len(c)
                                /\ Len(c) <= max_depth
                /\ \A c1, c2 \in R : c1 # c2 => ~IsRotation(c1, c2)
                /\ \A c \in ElementaryCycles(E, max_depth) : \E r \in R : IsRotation(r, c)

\* invoices A->B, B->C, C->A and no other trade: one cycle, over {A, B, C},
\* which max_depth = 2 filters out
C8_Witness ==
    /\ ProjectionEdges = {<<"A", "B">>, <<"B", "C">>, <<"C", "A">>}
    /\ Cardinality(detect_circular_trading(DEFAULT_MAX_DEPTH)) = 1
    /\ \A c \in detect_circular_trading(DEFAULT_MAX_DEPTH) : SeqToSet(c) = {"A", "B", "C"}
    /\ detect_circular_trading(2) = {}

RESULT_CAP == 20

\* C9: detect_circular_trading returns at most the cap of 20 cycles in every
\* state of the graph, dense ones included.
C9_CycleCountCapped ==
    Cardinality(detect_circular_trading(DEFAULT_MAX_DEPTH)) <= RESULT_CAP

(***************************************************************************)
(* Properties of the classifier                                            *)
(***************************************************************************)
\* the classification table: [reported][claimed]
MismatchTable ==
    [reported \in BOOLEAN |-> [claimed \in BOOLEAN |->
        IF reported THEN (IF claimed THEN "Matched"
                          ELSE "Reported by seller but not claimed by buyer")
        ELSE (IF claimed THEN "Claimed by buyer but not reported by seller"
              ELSE "Neither reported nor claimed")]]

\* C10: classify_mismatch of every stored invoice is the table's entry for its
\* (reported_by_seller, claimed_by_buyer), and an upsert_invoice that repeats
\* the previous one leaves the invoice's classification as it was.
C10_ClassifyTable ==
    /\ \A n \in StoredInvoices :
          classify_mismatch(get_invoice(n)) =
             MismatchTable[get_invoice(n).reported_by_seller][get_invoice(n).claimed_by_buyer]
    /\ (last.repeat /\ last.op = "upsert_invoice") =>
          classify_mismatch(get_invoice(last.key)) =
             classify_mismatch(last.before.get_invoice[last.key])

\* two stored invoices of different classes, one of them just upserted again
\* with identical fields
C10_Witness ==
    /\ last.repeat
    /\ last.op = "upsert_invoice"
    /\ classify_mismatch(get_invoice(last.key)) = CLAIMED_NOT_REPORTED
    /\ \E n \in StoredInvoices : classify_mismatch(get_invoice(n)) = BOTH_MISSING

(***************************************************************************)
(* Properties of the reconciliation list                                   *)
(***************************************************************************)
\* position of an invoice in a list of invoice entries
PositionIn(entries, id) ==
    CHOOSE i \in 1..Len(entries) : entries[i].invoice_id = id

\* C11: reconcile_all_invoices returns one entry for each invoice of
\* get_mismatched_invoices, no more and no fewer, each with the invoice's
\* classify_mismatch value and its score_invoice risk score and level (cycle
\* membership from the current state), in non-increasing risk score; entries
\* of equal risk score are in the order they had in get_mismatched_invoices.
C11_ReconcileSortedStable ==
    LET m == get_mismatched_invoices
        r == reconcile_all_invoices
        c == get_circular_gstins
    IN  /\ Len(r) = Len(m)
        /\ \A i, j \in 1..Len(r) : r[i].invoice_id = r[j].invoice_id => i = j
        /\ {r[i].invoice_id : i \in 1..Len(r)} = {m[i].invoice_id : i \in 1..Len(m)}
        /\ \A i \in 1..Len(r) :
              LET inv == get_invoice(r[i].invoice_id)
              IN  /\ r[i].mismatch_type = classify_mismatch(inv)
                  /\ r[i].risk_score = score_invoice(inv, c).risk_score
                  /\ r[i].risk_level = score_invoice(inv, c).risk_level
                  /\ \A f \in DOMAIN inv : r[i][f] = inv[f]
        /\ \A i \in 1..(Len(r) - 1) : r[i].risk_score >= r[i + 1].risk_score
        /\ \A i, j \in 1..Len(r) :
              (i < j /\ r[i].risk_score = r[j].risk_score) =>
                 PositionIn(m, r[i].invoice_id) < PositionIn(m, r[j].invoice_id)

\* two mismatches that the sort by risk score has exchanged: the one with the
\* higher tax has the lower risk score
C11_Witness ==
    LET m == get_mismatched_invoices
        r == reconcile_all_invoices
    IN  /\ Len(r) = 2
        /\ r[1].invoice_id = m[2].invoice_id
        /\ r[1].risk_score > r[2].risk_score
        /\ r[1].tax < r[2].tax

(***************************************************************************)
(* Properties of the scores                                                *)
(***************************************************************************)
\* the mismatch weight by the two flags
MismatchWeight(reported, claimed) ==
    IF ~reported /\ claimed THEN 35
    ELSE IF ~reported /\ ~claimed THEN 25
    ELSE IF reported /\ ~claimed THEN 15
    ELSE 0

\* the tax tier
TaxTier(tax) ==
    IF tax >= 100000 THEN 20
    ELSE IF tax >= 50000 THEN 15
    ELSE IF tax >= 20000 THEN 10
    ELSE 5

\* 8 x the seller's missed_filings, when the seller has a vendor record with
\* missed_filings > 0
SellerMissedTerm(inv) ==
    IF get_vendor(inv.seller_gstin) # None /\ get_vendor(inv.seller_gstin).missed_filings > 0
    THEN 8 * get_vendor(inv.seller_gstin).missed_filings
    ELSE 0

InvoiceRawScore(inv, c) ==
    MismatchWeight(inv.reported_by_seller, inv.claimed_by_buyer)
    + TaxTier(inv.tax)
    + SellerMissedTerm(inv)
    + (IF inv.seller_gstin \in c \/ inv.buyer_gstin \in c THEN 20 ELSE 0)

\* the invoice of the scenario: not reported, claimed, tax 120000, the seller
\* with 2 missed filings and in the set
IsScenarioInvoice(inv, c) ==
    /\ ~inv.reported_by_seller
    /\ inv.claimed_by_buyer
    /\ inv.tax = 120000
    /\ get_vendor(inv.seller_gstin) # None
    /\ get_vendor(inv.seller_gstin).missed_filings = 2
    /\ inv.seller_gstin \in c

\* C12: the risk score of every stored invoice, for every cycle-membership
\* set (the one computed from the state among them), is min(100, mismatch weight + tax tier + 8 x seller missed_filings +
\* circular bonus), the weight 35 / 25 / 15 / 0, the missed-filings term only
\* for a seller with a vendor record and missed_filings > 0, the bonus 20 iff
\* seller or buyer is in the set; the scenario invoice scores 91, critical.
C12_InvoiceScoreFormula ==
    \A n \in StoredInvoices : \A c \in CircularSets \cup {get_circular_gstins} :
        LET inv == get_invoice(n)
            risk == score_invoice(inv, c)
        IN  /\ risk.risk_score = Min(100, InvoiceRawScore(inv, c))
            /\ IsScenarioInvoice(inv, c) =>
                 /\ risk.risk_score = 91
                 /\ risk.risk_level = "critical"

\* the scenario invoice is stored, its seller in a detected cycle, next to an
\* invoice whose sum passes 100
C12_Witness ==
    /\ \E n \in StoredInvoices : IsScenarioInvoice(get_invoice(n), get_circular_gstins)
    /\ \E n \in StoredInvoices : InvoiceRawScore(get_invoice(n), get_circular_gstins) > 100

\* the invoices the store relates to a vendor: those with a PURCHASED_BY edge
\* to it, and those with a SOLD edge from it
PurchasedBy(g) ==
    {n \in StoredInvoices : [u |-> n, v |-> g, rel |-> "PURCHASED_BY"] \in EdgeSet}
SoldBy(g) ==
    {n \in StoredInvoices : [u |-> g, v |-> n, rel |-> "SOLD"] \in EdgeSet}

\* S: the invoices purchased by g that are claimed and not reported
SuspiciousIncoming(g) ==
    {n \in PurchasedBy(g) :
        get_invoice(n).claimed_by_buyer /\ ~get_invoice(n).reported_by_seller}

\* the counterparties of g: sellers of its purchases, buyers of its sales
Counterparties(g) ==
    ({get_invoice(n).seller_gstin : n \in PurchasedBy(g)}
     \cup {get_invoice(n).buyer_gstin : n \in SoldBy(g)}) \ {g}

\* N: the counterparties whose vendor record has missed_filings >= 2
HighRiskCounterparties(g) ==
    {x \in Counterparties(g) : get_vendor(x) # None /\ get_vendor(x).missed_filings >= 2}

\* the three terms of the vendor score that do not depend on the set
VendorBaseScore(g) ==
    8 * get_vendor(g).missed_filings
    + Min(25 * Cardinality(SuspiciousIncoming(g)), 50)
    + 5 * Cardinality(HighRiskCounterparties(g))

VendorRawScore(g, c) == VendorBaseScore(g) + (IF g \in c THEN 20 ELSE 0)

\* C13: the risk score of every vendor with a record, for every
\* cycle-membership set, is min(100, 8 x missed_filings + min(25 x S, 50) +
\* 5 x N + C).
C13_VendorScoreFormula ==
    \A g \in StoredVendors :
        LET base == VendorBaseScore(g)
        IN  \A c \in CircularSets :
                score_vendor(g, c).risk_score =
                    Min(100, base + (IF g \in c THEN 20 ELSE 0))

\* a vendor with a missed filing, three suspicious purchases and two
\* high-risk counterparties, next to a vendor whose sum stays below 100
C13_Witness ==
    /\ \E g \in StoredVendors :
          /\ get_vendor(g).missed_filings > 0
          /\ Cardinality(SuspiciousIncoming(g)) >= 3
          /\ Cardinality(HighRiskCounterparties(g)) = 2
    /\ \E g \in StoredVendors :
          /\ Cardinality(HighRiskCounterparties(g)) = 1
          /\ VendorRawScore(g, {g}) < 100

\* the GSTINs a vendor score is asked for: the vendors of the batches, an
\* invoice id and a key that is never written
ScoreKeys == SeqToSet(ScoreGstinSeq) \cup {"I1", "UNKNOWN"}

\* C14: every score_invoice and score_vendor risk_score is within 0..100, for
\* every stored invoice, every GSTIN (with or without a vendor record) and
\* every cycle-membership set, and compliance_score = 100 - risk_score.
C14_ScoreBounds ==
    \A c \in CircularSets :
        /\ \A n \in StoredInvoices :
              LET risk == score_invoice(get_invoice(n), c)
              IN  0 <= risk.risk_score /\ risk.risk_score <= 100
        /\ \A k \in ScoreKeys :
              LET risk == score_vendor(k, c)
              IN  /\ 0 <= risk.risk_score
                  /\ risk.risk_score <= 100
                  /\ risk.compliance_score = 100 - risk.risk_score
                  /\ 0 <= risk.compliance_score
                  /\ risk.compliance_score <= 100

\* a vendor and an invoice whose sums pass 100, and a GSTIN without a record
C14_Witness ==
    /\ \E g \in StoredVendors : VendorRawScore(g, {}) > 100
    /\ \E n \in StoredInvoices : InvoiceRawScore(get_invoice(n), {}) > 100
    /\ \E k \in ScoreKeys : k \in NodeIds /\ get_vendor(k) = None

\* C15: an upsert_vendor that raises a vendor's missed_filings by one (same
\* name, invoices and other vendors untouched) leaves the vendor's risk score,
\* for every cycle-membership set, greater than or equal to what it was.
C15_MissedFilingsMonotone ==
    last.raised =>
        \A c \in CircularSets :
            score_vendor(last.key, c).risk_score >= last.score_before[c]

\* missed_filings raised from 0 to 1 on a vendor that trades: the score rose
\* where the sum is below 100
C15_Witness ==
    /\ last.raised
    /\ get_vendor(last.key).missed_filings = 1
    /\ PurchasedBy(last.key) # {}
    /\ score_vendor(last.key, {}).risk_score > last.score_before[{}]

\* the level the mapping gives a score
LevelMapping(score, risk_level) ==
    /\ risk_level = "critical" <=> score >= 70
    /\ risk_level = "high" <=> (50 <= score /\ score < 70)
    /\ risk_level = "medium" <=> (25 <= score /\ score < 50)
    /\ risk_level = "low" <=> score < 25

\* C16: the risk_level of every invoice score and every vendor score is the
\* mapping's level for the returned risk_score: critical iff >= 70, high iff
\* 50..69, medium iff 25..49, low iff < 25; so is the default (0, low) for a
\* GSTIN without a vendor record.
C16_LevelFromScore ==
    \A c \in CircularSets :
        /\ \A n \in StoredInvoices :
              LET risk == score_invoice(get_invoice(n), c)
              IN  LevelMapping(risk.risk_score, risk.risk_level)
        /\ \A k \in ScoreKeys :
              LET risk == score_vendor(k, c)
              IN  LevelMapping(risk.risk_score, risk.risk_level)

\* vendor scores of all four levels, one of them on the threshold 50, and the
\* default for an absent GSTIN
C16_Witness ==
    /\ \E g \in StoredVendors : \E c \in CircularSets : score_vendor(g, c).risk_score = 50
    /\ \A l \in {"critical", "high", "medium", "low"} :
          \E g \in StoredVendors : \E c \in CircularSets : score_vendor(g, c).risk_level = l
    /\ get_vendor("UNKNOWN") = None

\* every invoice purchased by g is reported and claimed
AllIncomingMatched(g) ==
    \A n \in PurchasedBy(g) :
        get_invoice(n).reported_by_seller /\ get_invoice(n).claimed_by_buyer

\* C17: a vendor with missed_filings = 0 whose purchased invoices are all
\* matched scores 0, level low, in every state, the cycle-membership set
\* computed from the state.
C17_CleanVendorScoresZero ==
    \A g \in StoredVendors :
        (get_vendor(g).missed_filings = 0 /\ AllIncomingMatched(g)) =>
            /\ score_vendor(g, get_circular_gstins).risk_score = 0
            /\ score_vendor(g, get_circular_gstins).risk_level = "low"

\* C17 as amended: such a vendor scores 0, level low, when in addition none
\* of its counterparties has a vendor record with missed_filings >= 2 and it
\* is on no detected cycle.
C17_CleanVendorAmended ==
    \A g \in StoredVendors :
        (/\ get_vendor(g).missed_filings = 0
         /\ AllIncomingMatched(g)
         /\ HighRiskCounterparties(g) = {}
         /\ g \notin get_circular_gstins) =>
            /\ score_vendor(g, get_circular_gstins).risk_score = 0
            /\ score_vendor(g, get_circular_gstins).risk_level = "low"

\* a vendor with no missed filing that has purchased two matched invoices,
\* from a seller that is not high-risk, and is on no cycle
C17_Witness ==
    \E g \in StoredVendors :
        /\ get_vendor(g).missed_filings = 0
        /\ Cardinality(PurchasedBy(g)) >= 2
        /\ AllIncomingMatched(g)
        /\ Counterparties(g) # {}
        /\ HighRiskCounterparties(g) = {}
        /\ g \notin get_circular_gstins

(***************************************************************************)
(* Properties of absence, the summary and the graph export                 *)
(***************************************************************************)
\* the node of k is a vendor record / a stored invoice
HasVendorRecord(k) == k \in NodeIds /\ NodeType(k) = "vendor"
HasInvoiceRecord(k) == k \in NodeIds /\ NodeType(k) = "invoice"

\* C18: score_vendor for a GSTIN without a vendor record returns risk_score
\* 0, level low, compliance_score 100 and no reasons, for every
\* cycle-membership set, and get_invoice_audit_trail for an id without a
\* stored invoice returns the empty result; neither is an error value.
C18_AbsenceIsAValue ==
    \A k \in ReadKeys :
        /\ ~HasVendorRecord(k) =>
              \A c \in CircularSets :
                  /\ score_vendor(k, c) # NetworkXError
                  /\ score_vendor(k, c) =
                       [risk_score |-> 0, risk_level |-> "low",
                        compliance_score |-> 100, reasons |-> <<>>]
        /\ ~HasInvoiceRecord(k) =>
              /\ get_invoice_audit_trail(k) # NetworkXError
              /\ get_invoice_audit_trail(k) = EmptyDict

\* a GSTIN that invoices name as buyer and seller but that has no vendor
\* record, and a key that was a vendor before an invoice took its node
C18_Witness ==
    /\ \E k \in Gstins :
          /\ ~HasVendorRecord(k)
          /\ PurchasedBy(k) # {}
          /\ SoldBy(k) # {}
    /\ \E k \in ReadKeys : hist[k].vendor # NoCall /\ HasInvoiceRecord(k)

\* C19: get_graph_summary counts the stored vendors, the stored invoices, the
\* invoices with reported_by_seller # claimed_by_buyer (as many as
\* get_mismatched_invoices returns) and the invoices claimed and not
\* reported; suspicious_count <= mismatch_count <= invoice_count.
C19_SummaryCounts ==
    LET summary == get_graph_summary
    IN  /\ summary.vendor_count = Cardinality(StoredVendors)
        /\ summary.invoice_count = Cardinality(StoredInvoices)
        /\ summary.mismatch_count =
             Cardinality({n \in StoredInvoices :
                 get_invoice(n).reported_by_seller # get_invoice(n).claimed_by_buyer})
        /\ summary.mismatch_count = Len(get_mismatched_invoices)
        /\ summary.suspicious_count =
             Cardinality({n \in StoredInvoices :
                 get_invoice(n).claimed_by_buyer /\ ~get_invoice(n).reported_by_seller})
        /\ summary.suspicious_count <= summary.mismatch_count
        /\ summary.mismatch_count <= summary.invoice_count

\* a vendor, a matched invoice and an invoice that is claimed and not
\* reported
C19_Witness ==
    /\ get_graph_summary.vendor_count = 1
    /\ get_graph_summary.invoice_count = 2
    /\ get_graph_summary.mismatch_count = 1
    /\ get_graph_summary.suspicious_count = 1

\* the nodes of get_graph_data with a given id
GraphDataNodesOf(id) ==
    {i \in 1..Len(get_graph_data.nodes) : get_graph_data.nodes[i].id = id}

\* C20: get_graph_data has exactly one node per stored vendor, of type vendor
\* with its name and missed_filings, one node per stored invoice, of type
\* invoice with is_suspicious = claimed_by_buyer and not reported_by_seller,
\* and no node of another type, also when an invoice names a seller or buyer
\* that was never upserted as a vendor.
C20_GraphDataNodes ==
    LET nodes == get_graph_data.nodes
    IN  /\ \A i \in 1..Len(nodes) : nodes[i].type \in {"vendor", "invoice"}
        /\ Len(nodes) = Cardinality(StoredVendors) + Cardinality(StoredInvoices)
        /\ \A g \in StoredVendors :
              /\ Cardinality(GraphDataNodesOf(g)) = 1
              /\ \A i \in GraphDataNodesOf(g) :
                    /\ nodes[i].type = "vendor"
                    /\ nodes[i].name = get_vendor(g).name
                    /\ nodes[i].missed_filings = get_vendor(g).missed_filings
        /\ \A n \in StoredInvoices :
              /\ Cardinality(GraphDataNodesOf(n)) = 1
              /\ \A i \in GraphDataNodesOf(n) :
                    /\ nodes[i].type = "invoice"
                    /\ nodes[i].is_suspicious =
                         (get_invoice(n).claimed_by_buyer /\ ~get_invoice(n).reported_by_seller)

(***************************************************************************)
(* Properties of the threads and of the backends                           *)
(***************************************************************************)
\* the invoice is in the sold list or the purchased list of the GSTIN
ListedFor(gstin, field, invoice_id) ==
    LET vendor_invoices == get_vendor_invoices(gstin)
    IN  /\ vendor_invoices # NetworkXError
        /\ \E i \in 1..Len(vendor_invoices[field]) :
              vendor_invoices[field][i].invoice_id = invoice_id

\* C21: a reader in another thread that runs between the statements of an
\* upsert_invoice call never sees an invoice without its edges: every
\* invoice that get_invoice returns is in the sold list of its seller and
\* in the purchased list of its buyer.
C21_UpsertInvoiceAtomic ==
    \A k \in InvoiceIds :
        get_invoice(k) # None =>
            /\ ListedFor(get_invoice(k).seller_gstin, "sold", k)
            /\ ListedFor(get_invoice(k).buyer_gstin, "purchased", k)

\* C22: when the backend's detect_circular_trading raises (operation not
\* implemented, or a failure), reconcile_all_invoices and
\* get_invoice_audit_trail do not answer as they answer when the detection
\* returns no cycle: the caller can tell the two outcomes apart.
C22_CapabilityGapSurfaced ==
    \A e \in DetectFailures :
        /\ reconcile_all_invoices_given(Raised(e))
              # reconcile_all_invoices_given(Returned({}))
        /\ \A k \in InvoiceIds :
              get_invoice(k) # None =>
                  get_invoice_audit_trail_given(k, Raised(e))
                    # get_invoice_audit_trail_given(k, Returned({}))

\* C23: create_constraints returns normally on every backend, whichever of
\* its schema statements fail, and a call of it leaves the stored vendors,
\* invoices and relationships as they were.
C23_CreateConstraintsNeverFails ==
    /\ \A backend \in Backends, failing \in SUBSET CONSTRAINT_STATEMENTS :
          ~create_constraints_outcome(backend, failing).raised
    /\ last.op = "create_constraints" => BackendStores = last.before

\* C24: a read operation (detect_circular_trading, get_graph_summary,
\* get_mismatched_invoices, score_invoice, score_vendor,
\* reconcile_all_invoices, get_invoice_audit_trail) leaves every node and
\* edge of the store as it was after every one of its accesses to it, so
\* every read (a function of the nodes and edges) gives after it the result
\* it gave before it.
C24_ReadsLeaveStoreUnchanged ==
    (last.op \in ReadOps \/ last.within \cap ReadOps # {})
        => [nodes |-> G_node, edges |-> G_edges] = last.before

\* the detection that reconcile_all_invoices calls has added the edge of a
\* stored invoice to its vendor_graph, on a store with a vendor
C24_Witness ==
    /\ last.op = "detect_circular_trading"
    /\ "reconcile_all_invoices" \in last.within
    /\ last.before = [nodes |-> G_node, edges |-> G_edges]
    /\ get_all_vendors # <<>>
    /\ \E t \in Threads :
          /\ "call" \in DOMAIN inflight[t]
          /\ inflight[t].call.method = "detect_circular_trading"
          /\ inflight[t].call.vendor_graph.edges # <<>>

\* the GSTINs that a stored invoice names as seller or buyer and that no
\* upsert_vendor has written since the last clear
ReferencedOnly ==
    {g \in Gstins :
        /\ hist[g].latest # "vendor"
        /\ \E k \in BackendInvoiceIds :
              /\ get_invoice(k) # None
              /\ g \in {get_invoice(k).seller_gstin, get_invoice(k).buyer_gstin}}

VendorCountOf(summary) == Get(summary, "vendor_count", -1)

\* C25: for a GSTIN that only invoices name, the in-memory backend and the
\* Neo4j backend agree on whether get_vendor returns a vendor, and the two
\* get_graph_summary results agree on vendor_count.
C25_BackendsAgreeOnReferencedVendors ==
    ReferencedOnly # {} =>
        /\ \A g \in ReferencedOnly :
              (get_vendor(g) = None) <=> (Neo4j_get_vendor(neo4j, g) = None)
        /\ VendorCountOf(get_graph_summary)
              = VendorCountOf(Neo4j_get_graph_summary(neo4j))

\* the tier of a tax amount, by its range
TaxTierByRange(tax) ==
    CASE tax >= 100000 -> 20
      [] 50000 <= tax /\ tax < 100000 -> 15
      [] 20000 <= tax /\ tax < 50000 -> 10
      [] 0 <= tax /\ tax < 20000 -> 5

\* C26: the tax points of a stored invoice are those of the first inclusive
\* lower bound its tax reaches, tried from the highest: 20 from 100000, 15
\* from 50000, 10 from 20000 and 5 for every other tax from 0 on, 0
\* included; so every stored invoice (tax >= 0) has a risk score of at least
\* 5, whatever the cycle membership.
C26_TaxTiers ==
    \A k \in SeqToSet(TierInvoiceIdSeq) :
        LET inv == get_invoice(k)
        IN  (inv # None /\ inv.tax >= 0) =>
                /\ tax_score(inv.tax) = TaxTierByRange(inv.tax)
                /\ \E i \in 1..Len(score_invoice(inv, {}).reasons) :
                      score_invoice(inv, {}).reasons[i]
                        = Reason("Tax amount", inv.tax, TaxTierByRange(inv.tax))
                /\ \A c \in CircularSets \cup {get_circular_gstins} :
                      score_invoice(inv, c).risk_score >= 5

\* a matched invoice with tax 0 of a seller without missed filings is
\* stored and scores exactly 5
C26_Witness ==
    \E k \in SeqToSet(TierInvoiceIdSeq) :
        /\ get_invoice(k) # None
        /\ get_invoice(k).tax = 0
        /\ classify_mismatch(get_invoice(k)) = MATCHED
        /\ score_invoice(get_invoice(k), get_circular_gstins).risk_score = 5

\* the seller of the invoice has a vendor record with missed_filings > 0
SellerMissedFilings(inv) ==
    /\ get_vendor(inv.seller_gstin) # None
    /\ get_vendor(inv.seller_gstin).missed_filings > 0

\* the seller or the buyer of the invoice is on a cycle that
\* detect_circular_trading(5) returns in the current store
OnDetectedCycle(inv) ==
    \E cycle \in detect_circular_trading(DEFAULT_MAX_DEPTH) :
        inv.seller_gstin \in SeqToSet(cycle) \/ inv.buyer_gstin \in SeqToSet(cycle)

\* C27: the audit trail of a stored invoice is numbered 1..n without gaps:
\* the summary step (ok), the seller step (ok iff reported_by_seller, else
\* error), the buyer step (warning iff claimed and not reported, else ok),
\* then a warning step iff the seller has missed filings, then an error
\* step iff the seller or buyer is on a detected cycle; n is 3, 4 or 5 and
\* a circular step without a missed-filings step is numbered 4.
C27_AuditTrailSteps ==
    \A k \in InvoiceIds :
        get_invoice(k) # None =>
            LET inv == get_invoice(k)
                trail == get_invoice_audit_trail(k).trail
                n == Len(trail)
                missed == SellerMissedFilings(inv)
                circular == OnDetectedCycle(inv)
            IN  /\ \A i \in 1..n : trail[i].step = i
                /\ n = 3 + (IF missed THEN 1 ELSE 0) + (IF circular THEN 1 ELSE 0)
                /\ trail[1].description[1] = "Invoice"
                /\ trail[1].status = "ok"
                /\ trail[2].description[1] \in {"Seller filed GSTR-1",
                                                "Seller did NOT file GSTR-1"}
                /\ trail[2].status = (IF inv.reported_by_seller THEN "ok" ELSE "error")
                /\ trail[3].description[1] \in {"Buyer claimed ITC in GSTR-2B",
                                                "Buyer did NOT claim ITC in GSTR-2B"}
                /\ trail[3].status = (IF inv.claimed_by_buyer /\ ~inv.reported_by_seller
                                      THEN "warning" ELSE "ok")
                /\ missed =>
                      /\ trail[4].description[1] = "Seller has missed return filings"
                      /\ trail[4].status = "warning"
                /\ circular =>
                      /\ trail[n].description[1] = "Parties in circular trading"
                      /\ trail[n].status = "error"
                      /\ trail[n].step = (IF missed THEN 5 ELSE 4)

\* two invoices on one cycle: the trail of one has five steps, the trail of
\* the other has four and ends with the circular-trading step
C27_Witness ==
    \E k1 \in InvoiceIds, k2 \in InvoiceIds :
        /\ get_invoice(k1) # None
        /\ get_invoice(k2) # None
        /\ Len(get_invoice_audit_trail(k1).trail) = 5
        /\ Len(get_invoice_audit_trail(k2).trail) = 4
        /\ get_invoice_audit_trail(k2).trail[4].status = "error"
        /\ ~SellerMissedFilings(get_invoice(k2))

\* the trail has the circular-trading step
HasCircularStep(trail) ==
    \E j \in 1..Len(trail) : trail[j].description[1] = "Parties in circular trading"

\* the score of the stored invoice counts the circular bonus
CountsCircularBonus(invoice_id) ==
    LET reasons == score_invoice(get_invoice(invoice_id), get_circular_gstins).reasons
    IN  \E j \in 1..Len(reasons) :
            reasons[j] = Reason("Circular trading involvement", 0, CIRCULAR_BONUS)

\* C29: in one state of the store, each entry of reconcile_all_invoices has
\* the mismatch_type, risk_score and risk_level that
\* get_invoice_audit_trail returns for the same invoice id, and that trail
\* has the circular-trading step exactly when the circular bonus is part of
\* the score.
C29_EnginesAgree ==
    LET entries == reconcile_all_invoices
    IN  \A i \in 1..Len(entries) :
            LET audit == get_invoice_audit_trail(entries[i].invoice_id)
            IN  /\ audit # EmptyDict
                /\ audit.mismatch_type = entries[i].mismatch_type
                /\ audit.risk_score = entries[i].risk_score
                /\ audit.risk_level = entries[i].risk_level
                /\ HasCircularStep(audit.trail)
                      <=> CountsCircularBonus(entries[i].invoice_id)

\* two mismatched invoices on one cycle, and the trail of the first entry
\* has the circular-trading step
C29_Witness ==
    /\ Len(reconcile_all_invoices) = 2
    /\ HasCircularStep(get_invoice_audit_trail(reconcile_all_invoices[1].invoice_id).trail)
    /\ reconcile_all_invoices[1].risk_score > reconcile_all_invoices[2].risk_score

\* C30: every entry of reconcile_all_invoices is classified claimed-not-
\* reported or reported-not-claimed, never matched and never both-missing;
\* a stored invoice with both flags false or both true has no entry; and
\* every entry (tax >= 0) has a risk score of at least 20.
C30_ReconcileEntryClasses ==
    LET entries == reconcile_all_invoices
    IN  /\ \A i \in 1..Len(entries) :
              /\ entries[i].mismatch_type \in {CLAIMED_NOT_REPORTED, REPORTED_NOT_CLAIMED}
              /\ entries[i].mismatch_type
                    = MismatchTable[entries[i].reported_by_seller][entries[i].claimed_by_buyer]
              /\ entries[i].tax >= 0 => entries[i].risk_score >= 20
        /\ \A k \in InvoiceIds :
              (/\ get_invoice(k) # None
               /\ get_invoice(k).reported_by_seller = get_invoice(k).claimed_by_buyer)
                  => ~\E i \in 1..Len(entries) : entries[i].invoice_id = k

\* a both-missing invoice is stored and has no entry, and the one entry is
\* reported-not-claimed with the least score, 20
C30_Witness ==
    /\ \E k \in InvoiceIds :
          /\ get_invoice(k) # None
          /\ ~get_invoice(k).reported_by_seller
          /\ ~get_invoice(k).claimed_by_buyer
    /\ Len(reconcile_all_invoices) = 1
    /\ reconcile_all_invoices[1].mismatch_type = REPORTED_NOT_CLAIMED
    /\ reconcile_all_invoices[1].risk_score = 20
====
